---- MODULE Spec2Model ----
(***************************************************************************)
(* Control logic of the TSCS42xx audio codec driver                        *)
(* (sound/soc/codecs/tscs42xx.c): reference-counted PLL power sequencing,  *)
(* stream mute/unmute, and the coefficient RAM access protocol.            *)
(*                                                                         *)
(* Every handler runs under tscs42xx->data_lock from its first to its last *)
(* access, so a handler is one atomic action.  The register interface      *)
(* (regmap and snd_soc calls), DAPM and the PLL lock status are the        *)
(* environment: each call site may fail, chosen by the action's inputs.    *)
(* A handler is invoked by the sound core on behalf of a caller; the       *)
(* record of the call stays in `call` until the caller has taken it.       *)
(***************************************************************************)
EXTENDS Integers, Sequences, FiniteSets, TLC

VARIABLES
    pll_users,   \* tscs42xx_priv.pll_users
    samplerate,  \* tscs42xx_priv.samplerate
    regs,        \* register fields of the device, by field name
    dac_pin,     \* DAPM pin "DAC L" force-enabled (1) or not (0)
    cram,        \* coefficient RAM: address -> 3-byte word
    call,        \* the handler call whose result its caller has not yet taken:
                 \* name, arguments, result, accesses in order, state before
    held,        \* successful PowerUp calls minus PowerDown calls so far
    unmuted,     \* the streams whose last mute_stream call was a successful unmute
    mclk_src_freq, \* tscs42xx_priv.mclk_src_freq
    pll_src_clk, \* tscs42xx_priv.pll_src_clk
    phase,       \* how far the device is set up: "unbound", "bound" (after
                 \* tscs42xx_i2c_probe), "ready" (after tscs42xx_probe)
    owner,       \* the thread that holds data_lock, "" when it is free
    thr,         \* per thread: the handler it runs and what it has left to do
    xfer         \* the polling loop in progress, one loop step at a time

vars == <<pll_users, samplerate, regs, dac_pin, cram, call, held, unmuted,
          mclk_src_freq, pll_src_clk, phase, owner, thr, xfer>>

----------------------------------------------------------------------------
(* Bounds of the model *)

\* pll_users is kept within -MaxDeficit .. MaxUsers by the guards of the actions
MaxUsers == 2
MaxDeficit == 1
\* busy reads of the coefficient status register before it reads idle, at most
MaxBusy == 1
\* words of the firmware file and of a request in the stepwise runs, at most
MaxXferWords == 2

----------------------------------------------------------------------------
(* Program constants *)

COEFF_SIZE == 3
COEFF_MAX_ADDR == 205
COEFF_COUNT == COEFF_MAX_ADDR + 1
MAX_PLL_LOCK_20MS_WAITS == 1

EINVAL == 22
ENOMSG == 42
ENOMEM == 12
EFAULT == 14
\* the error a failing register access or DAPM call returns
EIO == 5

----------------------------------------------------------------------------
(* Accesses made by a handler, in program order *)

Ev(k, a, v, ok) == [k |-> k, a |-> a, v |-> v, ok |-> ok]

Log(m, e) == [m EXCEPT !.trace = Append(@, e)]

\* mutex_lock(&tscs42xx->data_lock) and mutex_unlock(&tscs42xx->data_lock) as
\* the caller's own steps; the exclusion itself is in the threads below
mutex_lock(m) == Log(m, Ev("lock", "data_lock", 0, TRUE))
mutex_unlock(m) == Log(m, Ev("unlock", "data_lock", 0, TRUE))

\* regs keeps the register fields that a later access or a property reads;
\* a write to any other field is recorded in the accesses of the call only
Store(r, field, val) == IF field \in DOMAIN r THEN [r EXCEPT ![field] = val] ELSE r

\* snd_soc_update_bits(codec, reg, mask, val) on the field `field`;
\* the call fails when its site is among the failing sites F
update_bits(m, F, site, field, val) ==
    IF site \in F
    THEN [Log(m, Ev("w", field, val, FALSE)) EXCEPT !.ret = -EIO]
    ELSE [Log(m, Ev("w", field, val, TRUE)) EXCEPT
              !.regs = Store(@, field, val), !.ret = 0]

\* a DAPM call (force_enable_pin, disable_pin, sync); `pin` is the new state of
\* the forced pin "DAC L" when the call changes it, -1 when it does not
dapm_call(m, F, site, pin) ==
    IF site \in F
    THEN [Log(m, Ev("dapm", site, pin, FALSE)) EXCEPT !.ret = -EIO]
    ELSE [Log(m, Ev("dapm", site, pin, TRUE)) EXCEPT
              !.dac_pin = IF pin = -1 THEN @ ELSE pin, !.ret = 0]

----------------------------------------------------------------------------
(* Power/reference-count sequencer *)

\* outcomes of the successive reads of the lock status register R_PLLCTL0:
\* n reads return not-locked, every later one returns `term`
PollPlans ==
    {[i \in 1..(MAX_PLL_LOCK_20MS_WAITS + 1) |-> IF i <= n THEN "unlocked" ELSE term] :
        n \in 0..(MAX_PLL_LOCK_20MS_WAITS + 1), term \in {"locked", "err"}}

RECURSIVE plls_locked_loop(_, _, _, _)
plls_locked_loop(m, polls, n, count) ==
    IF polls[n] = "err"
    THEN [Log(m, Ev("r", "PLLCTL0", -EIO, FALSE)) EXCEPT !.ret = 0]
    ELSE IF polls[n] = "locked"
    THEN [Log(m, Ev("r", "PLLCTL0", 1, TRUE)) EXCEPT !.ret = 1]
    ELSE LET m1 == Log(m, Ev("r", "PLLCTL0", 0, TRUE)) IN
         IF count # 0
         THEN plls_locked_loop(m1, polls, n + 1, count - 1)
         ELSE [m1 EXCEPT !.ret = 0]

\* variant of plls_locked that reports a lock once the polls are used up;
\* C7 tells it from the driver
plls_locked_after_wait(m, polls) ==
    LET m1 == plls_locked_loop(m, polls, 1, MAX_PLL_LOCK_20MS_WAITS) IN
    IF polls[Len(m1.trace) - Len(m.trace)] = "unlocked" THEN [m1 EXCEPT !.ret = 1]
    ELSE m1

\* ret = 1 for true, 0 for false
plls_locked(m, polls) ==
    plls_locked_loop(m, polls, 1, MAX_PLL_LOCK_20MS_WAITS)

\* variant of sample_rate_to_pll_freq_out that takes every rate outside the
\* 44.1 kHz family for one of the 48 kHz family; C22 tells it from the driver
sample_rate_to_pll_freq_out_48k_default(sample_rate) ==
    IF sample_rate \in {11025, 22050, 44100, 88200} THEN 112896000
    ELSE 122880000

sample_rate_to_pll_freq_out(sample_rate) ==
    IF sample_rate \in {11025, 22050, 44100, 88200} THEN 112896000
    ELSE IF sample_rate \in {8000, 16000, 32000, 48000, 96000} THEN 122880000
    ELSE -EINVAL

Return(m, f, ret) == [Log(m, Ev("ret", f, ret, ret >= 0)) EXCEPT !.ret = ret]

\* variant of power_down_audio_plls that powers the PLLs down while one user
\* is left; C6 tells it from the driver
power_down_audio_plls_early(m, F) ==
    LET m0 == Log(m, Ev("call", "power_down", 0, TRUE))
        m1 == Log([m0 EXCEPT !.pll_users = @ - 1],
                  Ev("users", "dec", m0.pll_users - 1, TRUE))
    IN  IF m1.pll_users > 1 THEN Return(m1, "power_down", 0)
        ELSE LET m2 == update_bits(m1, F, "pll1_off", "PDB_PLL1", 0) IN
             IF m2.ret < 0 THEN Return(m2, "power_down", m2.ret)
             ELSE LET m3 == update_bits(m2, F, "pll2_off", "PDB_PLL2", 0) IN
                  IF m3.ret < 0 THEN Return(m3, "power_down", m3.ret)
                  ELSE Return(m3, "power_down", 0)

\* variant of power_down_audio_plls that clears the enable bit of PLL1 only;
\* C21 tells it from the driver
power_down_audio_plls_pll1_only(m, F) ==
    LET m0 == Log(m, Ev("call", "power_down", 0, TRUE))
        m1 == Log([m0 EXCEPT !.pll_users = @ - 1],
                  Ev("users", "dec", m0.pll_users - 1, TRUE))
    IN  IF m1.pll_users > 0 THEN Return(m1, "power_down", 0)
        ELSE LET m2 == update_bits(m1, F, "pll1_off", "PDB_PLL1", 0) IN
             Return(m2, "power_down", m2.ret)

power_down_audio_plls(m, F) ==
    LET m0 == Log(m, Ev("call", "power_down", 0, TRUE))
        m1 == Log([m0 EXCEPT !.pll_users = @ - 1],
                  Ev("users", "dec", m0.pll_users - 1, TRUE))
    IN  IF m1.pll_users > 0 THEN Return(m1, "power_down", 0)
        ELSE LET m2 == update_bits(m1, F, "pll1_off", "PDB_PLL1", 0) IN
             IF m2.ret < 0 THEN Return(m2, "power_down", m2.ret)
             ELSE LET m3 == update_bits(m2, F, "pll2_off", "PDB_PLL2", 0) IN
                  IF m3.ret < 0 THEN Return(m3, "power_down", m3.ret)
                  ELSE Return(m3, "power_down", 0)

\* variant of power_up_audio_plls that counts the user before the lock is
\* observed; C2 tells it from the driver
power_up_audio_plls_count_first(m, F, polls) ==
    LET m0 == Log(m, Ev("call", "power_up", 0, TRUE))
        freq_out == sample_rate_to_pll_freq_out(m0.samplerate)
    IN  IF freq_out \notin {122880000, 112896000}
        THEN Return(m0, "power_up", -EINVAL)
        ELSE LET field == IF freq_out = 122880000 THEN "PDB_PLL1" ELSE "PDB_PLL2"
                 m1 == update_bits(m0, F, "pll_on", field, 1)
             IN  IF m1.ret < 0 THEN Return(m1, "power_up", m1.ret)
                 ELSE LET m2 == plls_locked([m1 EXCEPT !.pll_users = @ + 1], polls) IN
                      IF m2.ret = 0 THEN Return(m2, "power_up", -ENOMSG)
                      ELSE Return(Log(m2, Ev("users", "inc", m2.pll_users, TRUE)),
                                  "power_up", 0)

power_up_audio_plls(m, F, polls) ==
    LET m0 == Log(m, Ev("call", "power_up", 0, TRUE))
        freq_out == sample_rate_to_pll_freq_out(m0.samplerate)
    IN  IF freq_out \notin {122880000, 112896000}
        THEN Return(m0, "power_up", -EINVAL)
        ELSE LET field == IF freq_out = 122880000 THEN "PDB_PLL1" ELSE "PDB_PLL2"
                 m1 == update_bits(m0, F, "pll_on", field, 1)
             IN  IF m1.ret < 0 THEN Return(m1, "power_up", m1.ret)
                 ELSE LET m2 == plls_locked(m1, polls) IN
                      IF m2.ret = 0 THEN Return(m2, "power_up", -ENOMSG)
                      ELSE Return(Log([m2 EXCEPT !.pll_users = @ + 1],
                                      Ev("users", "inc", m2.pll_users + 1, TRUE)),
                                  "power_up", 0)

----------------------------------------------------------------------------
(* Stream mute / unmute *)

\* variant of dac_mute that releases the PLLs before it sets the mute bit;
\* C4 tells it from the driver
dac_mute_release_first(m, F) ==
    LET m1 == power_down_audio_plls(m, F) IN
    IF m1.ret < 0 THEN m1
    ELSE LET m2 == update_bits(m1, F, "mute_wr", "DACMU", 1) IN
         IF m2.ret < 0 THEN m2 ELSE [m2 EXCEPT !.ret = 0]

dac_mute(m, F) ==
    LET m1 == update_bits(m, F, "mute_wr", "DACMU", 1) IN
    IF m1.ret < 0 THEN m1
    ELSE LET m2 == power_down_audio_plls(m1, F) IN
         IF m2.ret < 0 THEN m2 ELSE [m2 EXCEPT !.ret = 0]

\* variant of dac_unmute that returns the error of the mute write without
\* releasing the PLLs; C33 tells it from the driver
dac_unmute_keep_plls(m, F, polls) ==
    LET m1 == power_up_audio_plls(m, F, polls) IN
    IF m1.ret < 0 THEN m1
    ELSE LET m2 == update_bits(m1, F, "mute_wr", "DACMU", 0) IN
         IF m2.ret < 0 THEN m2 ELSE [m2 EXCEPT !.ret = 0]

dac_unmute(m, F, polls) ==
    LET m1 == power_up_audio_plls(m, F, polls) IN
    IF m1.ret < 0 THEN m1
    ELSE LET m2 == update_bits(m1, F, "mute_wr", "DACMU", 0) IN
         IF m2.ret < 0
         THEN [power_down_audio_plls(m2, F) EXCEPT !.ret = m2.ret]
         ELSE [m2 EXCEPT !.ret = 0]

adc_mute(m, F) ==
    LET m1 == update_bits(m, F, "mute_wr", "ADCMU", 1) IN
    IF m1.ret < 0 THEN m1
    ELSE LET m2 == power_down_audio_plls(m1, F) IN
         IF m2.ret < 0 THEN m2 ELSE [m2 EXCEPT !.ret = 0]

\* variant of adc_unmute that clears the mute bit before PowerUp; C5 tells
\* it from the driver
adc_unmute_clear_first(m, F, polls) ==
    LET m1 == update_bits(m, F, "mute_wr", "ADCMU", 0) IN
    IF m1.ret < 0 THEN m1
    ELSE LET m2 == power_up_audio_plls(m1, F, polls) IN
         IF m2.ret < 0 THEN m2 ELSE [m2 EXCEPT !.ret = 0]

adc_unmute(m, F, polls) ==
    LET m1 == power_up_audio_plls(m, F, polls) IN
    IF m1.ret < 0 THEN m1
    ELSE LET m2 == update_bits(m1, F, "mute_wr", "ADCMU", 0) IN
         IF m2.ret < 0
         THEN [power_down_audio_plls(m2, F) EXCEPT !.ret = m2.ret]
         ELSE [m2 EXCEPT !.ret = 0]

tscs42xx_mute_stream(m, mute, stream, F, polls) ==
    LET m0 == mutex_lock(m)
        m1 == IF mute
              THEN IF stream = "playback" THEN dac_mute(m0, F) ELSE adc_mute(m0, F)
              ELSE IF stream = "playback" THEN dac_unmute(m0, F, polls)
                   ELSE adc_unmute(m0, F, polls)
    IN  mutex_unlock(m1)

----------------------------------------------------------------------------
(* Coefficient RAM access *)

COEFF_RAM_SIZE == COEFF_COUNT * COEFF_SIZE
\* 2 * sizeof(unsigned int): the type and length words of a TLV request
TL_SIZE == 8
COEFF_RAM_TLV_SIZE == COEFF_RAM_SIZE + TL_SIZE

U8(x) == x % 256

\* c_size / COEFF_SIZE for c_size = size - tl_size - 1 in unsigned 32-bit
\* arithmetic.  2^32 = 3 * 1431655765 + 1, so for size < 9 the wrapped value
\* (2^32 - k) / 3 with k = 9 - size is 1431655765 + floor((1 - k) / 3).
\* variant of c_count_of in signed arithmetic; C39 tells it from the driver
c_count_of_signed(size) ==
    (size - TL_SIZE - 1) \div COEFF_SIZE

c_count_of(size) ==
    IF size >= TL_SIZE + 1 THEN (size - TL_SIZE - 1) \div COEFF_SIZE
    ELSE 1431655765 + ((1 - (TL_SIZE + 1 - size)) \div COEFF_SIZE)

enable_daccram_access(m, F, polls) ==
    LET m0 == Log(m, Ev("call", "enable_daccram", 0, TRUE))
        m1 == dapm_call(m0, F, "force_enable_pin", 1)
    IN  IF m1.ret < 0 THEN Return(m1, "enable_daccram", m1.ret)
        ELSE LET m2 == dapm_call(m1, F, "sync_enable", -1) IN
             IF m2.ret < 0 THEN Return(m2, "enable_daccram", m2.ret)
             ELSE LET m3 == IF m2.pll_users = 0
                            THEN [m2 EXCEPT !.samplerate = 48000] ELSE m2
                      m4 == power_up_audio_plls(m3, F, polls)
                  IN  Return(m4, "enable_daccram", m4.ret)

disable_daccram_access(m, F) ==
    LET m0 == Log(m, Ev("call", "disable_daccram", 0, TRUE))
        m1 == dapm_call(m0, F, "disable_pin", 0)
    IN  IF m1.ret < 0 THEN Return(m1, "disable_daccram", m1.ret)
        ELSE LET m2 == dapm_call(m1, F, "sync_disable", -1) IN
             IF m2.ret < 0 THEN Return(m2, "disable_daccram", m2.ret)
             ELSE LET m3 == power_down_audio_plls(m2, F) IN
                  Return(m3, "disable_daccram", m3.ret)

\* regmap_write(regmap, R_DACCRADDR, addr); the site fails at word `fword`
write_daccraddr(m, F, fword, cnt, addr) ==
    IF "addr_wr" \in F /\ cnt = fword
    THEN [Log(m, Ev("w", "DACCRADDR", addr, FALSE)) EXCEPT !.ret = -EIO]
    ELSE [Log(m, Ev("w", "DACCRADDR", addr, TRUE)) EXCEPT
              !.craddr = addr, !.regs = Store(@, "DACCRADDR", addr), !.ret = 0]

\* regmap_bulk_read(regmap, R_DACCRRDL, &value[i], COEFF_SIZE): the three
\* read registers L, M, H return the word at the address register
bulk_read_daccrrd(m, F, fword, cnt) ==
    IF "data_rd" \in F /\ cnt = fword
    THEN [Log(m, Ev("r", "DACCRRD", cnt, FALSE)) EXCEPT !.ret = -EIO]
    ELSE [Log(m, Ev("r", "DACCRRD", cnt, TRUE)) EXCEPT
              !.buf = Append(@, m.cram[m.craddr]), !.ret = 0]

\* regmap_bulk_write(regmap, R_DACCRWRL, &c_bytes[i], COEFF_SIZE): the three
\* write registers L, M, H store the word at the address register
bulk_write_daccrwr(m, F, fword, cnt, word) ==
    IF "data_wr" \in F /\ cnt = fword
    THEN [Log(m, Ev("w", "DACCRWR", cnt, FALSE)) EXCEPT !.ret = -EIO]
    ELSE [Log(m, Ev("w", "DACCRWR", cnt, TRUE)) EXCEPT
              !.cram[m.craddr] = word, !.ret = 0]

coefficient_get_word_read_first(m, F, fword, addr) ==
    LET m1 == bulk_read_daccrrd(m, F, fword, addr) IN
    IF m1.ret < 0 THEN m1 ELSE write_daccraddr(m1, F, fword, addr, addr)

\* one iteration of the read loop: i = addr * COEFF_SIZE
coefficient_get_word(m, F, fword, addr) ==
    LET m1 == write_daccraddr(m, F, fword, addr, addr) IN
    IF m1.ret < 0 THEN m1 ELSE bulk_read_daccrrd(m1, F, fword, addr)

\* iterations lo .. hi - 1 of the read loop in order, left at the first failure
\* (the range is halved to keep the evaluation shallow)
RECURSIVE coefficient_get_loop(_, _, _, _, _)
coefficient_get_loop(m, F, fword, lo, hi) ==
    IF lo >= hi THEN [m EXCEPT !.ret = 0]
    ELSE IF hi = lo + 1 THEN coefficient_get_word(m, F, fword, lo)
    ELSE LET mid == (lo + hi) \div 2
             m1 == coefficient_get_loop(m, F, fword, lo, mid)
         IN  IF m1.ret < 0 THEN m1
             ELSE coefficient_get_loop(m1, F, fword, mid, hi)

\* coefficient_get up to its labels: m.at = "exit" when the run goes on at
\* label exit (the bracket exit), "unlock" when it goes on at the label that
\* only releases the lock, "return" when it returns at once.
\* m.out is what the caller's buffer receives: <<>> when nothing is copied
coefficient_get_transfer(m, size, F, polls, fword) ==
    IF size # COEFF_RAM_TLV_SIZE THEN [m EXCEPT !.ret = -EINVAL, !.at = "return"]
    ELSE IF "kzalloc" \in F THEN [m EXCEPT !.ret = -ENOMEM, !.at = "return"]
    ELSE LET m1 == enable_daccram_access(mutex_lock(m), F, polls) IN
         IF m1.ret < 0 THEN [m1 EXCEPT !.at = "unlock"]
         ELSE LET m2 == coefficient_get_loop([m1 EXCEPT !.buf = <<>>], F, fword, 0,
                                             COEFF_RAM_SIZE \div COEFF_SIZE)
              IN  IF m2.ret < 0 THEN [m2 EXCEPT !.at = "exit"]
                  ELSE IF "copy_user" \in F
                  THEN [m2 EXCEPT !.ret = -EFAULT, !.at = "exit"]
                  ELSE [m2 EXCEPT !.out = m2.buf, !.ret = 0, !.at = "exit"]

\* label exit of coefficient_get and of coefficient_put
coefficient_exit(m, F) ==
    IF m.at = "exit"
    THEN mutex_unlock([disable_daccram_access(m, F) EXCEPT !.ret = m.ret])
    ELSE IF m.at = "unlock" THEN mutex_unlock(m)
    ELSE m

coefficient_get(m, size, F, polls, fword) ==
    coefficient_exit(coefficient_get_transfer(m, size, F, polls, fword), F)

\* regmap_read(regmap, R_DACCRSTAT, &stat) until stat reads 0: `busy` reads
\* return busy before the first one that returns idle
RECURSIVE daccrstat_wait(_, _, _, _, _)
daccrstat_wait(m, F, fword, cnt, busy) ==
    IF "stat_rd" \in F /\ cnt = fword
    THEN [Log(m, Ev("r", "DACCRSTAT", -EIO, FALSE)) EXCEPT !.ret = -EIO]
    ELSE IF busy > 0
    THEN daccrstat_wait(Log(m, Ev("r", "DACCRSTAT", 1, TRUE)), F, fword, cnt, busy - 1)
    ELSE [Log(m, Ev("r", "DACCRSTAT", 0, TRUE)) EXCEPT !.ret = 0]

\* one iteration of the write loop, for word cnt of the request
coefficient_put_word(m, F, fword, busy, words, cnt, addr) ==
    LET m1 == write_daccraddr(m, F, fword, cnt, addr) IN
    IF m1.ret < 0 THEN m1
    ELSE LET m2 == bulk_write_daccrwr(m1, F, fword, cnt, words[cnt + 1]) IN
         IF m2.ret < 0 THEN m2
         ELSE daccrstat_wait(m2, F, fword, cnt, busy)

\* iterations lo .. hi - 1 of the write loop in order, left at the first
\* failure; addr is the u8 start address, incremented once per iteration
RECURSIVE coefficient_put_loop(_, _, _, _, _, _, _, _)
coefficient_put_loop(m, F, fword, busy, words, addr, lo, hi) ==
    IF lo >= hi THEN [m EXCEPT !.ret = 0]
    ELSE IF hi = lo + 1
    THEN coefficient_put_word(m, F, fword, busy, words, lo, U8(addr + lo))
    ELSE LET mid == (lo + hi) \div 2
             m1 == coefficient_put_loop(m, F, fword, busy, words, addr, lo, mid)
         IN  IF m1.ret < 0 THEN m1
             ELSE coefficient_put_loop(m1, F, fword, busy, words, addr, mid, hi)

\* coefficient_put up to its labels; `addr` is byte 8 of the caller's buffer,
\* `words` the 3-byte words after it
coefficient_put_transfer(m, size, addr, words, F, polls, fword, busy) ==
    LET c_count == c_count_of(size)
        m1 == enable_daccram_access(mutex_lock(m), F, polls)
    IN  IF m1.ret < 0 THEN [m1 EXCEPT !.at = "unlock"]
        ELSE IF "kzalloc" \in F THEN [m1 EXCEPT !.ret = -ENOMEM, !.at = "exit"]
        ELSE IF "copy_user" \in F THEN [m1 EXCEPT !.ret = -EFAULT, !.at = "exit"]
        ELSE IF addr + c_count > COEFF_MAX_ADDR
        THEN [Log(m1, Ev("check", "range", addr, FALSE))
                 EXCEPT !.ret = -EINVAL, !.at = "exit"]
        ELSE [coefficient_put_loop(m1, F, fword, busy, words, addr, 0, c_count)
                 EXCEPT !.at = "exit"]

coefficient_put(m, size, addr, words, F, polls, fword, busy) ==
    coefficient_exit(coefficient_put_transfer(m, size, addr, words, F, polls,
                                              fword, busy), F)

----------------------------------------------------------------------------
(* Sample rate / format programmer *)

\* snd_pcm_format_t as its sample width; 8 stands for a format outside
\* TSCS42XX_FORMATS
setup_sample_format(m, F, format) ==
    IF format \notin {16, 20, 24, 32} THEN [m EXCEPT !.ret = -EINVAL]
    ELSE update_bits(m, F, "wl_wr", "AIC1_WL", format)

\* br: the base rate in kHz (44 for 44.1 kHz); bm: the multiplier in quarters
RateDivider(rate) ==
    CASE rate = 8000  -> <<32, 1>>
      [] rate = 16000 -> <<32, 2>>
      [] rate = 24000 -> <<48, 2>>
      [] rate = 32000 -> <<32, 4>>
      [] rate = 48000 -> <<48, 4>>
      [] rate = 96000 -> <<48, 8>>
      [] rate = 11025 -> <<44, 1>>
      [] rate = 22050 -> <<44, 2>>
      [] rate = 44100 -> <<44, 4>>
      [] rate = 88200 -> <<44, 8>>
      [] OTHER -> <<>>

\* variant of setup_sample_rate that programs the DAC rate register only;
\* C14 tells it from the driver
setup_sample_rate_dac_only(m, F, rate) ==
    IF RateDivider(rate) = <<>> THEN [m EXCEPT !.ret = -EINVAL]
    ELSE LET br == RateDivider(rate)[1]
             bm == RateDivider(rate)[2]
             m1 == update_bits(m, F, "dac_br_wr", "DACSR_DBR", br)
         IN  IF m1.ret < 0 THEN m1
             ELSE LET m2 == update_bits(m1, F, "dac_bm_wr", "DACSR_DBM", bm) IN
                  IF m2.ret < 0 THEN m2
                  ELSE [Log(m2, Ev("set", "samplerate", rate, TRUE))
                           EXCEPT !.samplerate = rate, !.ret = 0]

\* variant of setup_sample_rate that records the rate before it programs the
\* registers; C15 tells it from the driver
setup_sample_rate_store_first(m, F, rate) ==
    IF RateDivider(rate) = <<>> THEN [m EXCEPT !.ret = -EINVAL]
    ELSE LET br == RateDivider(rate)[1]
             bm == RateDivider(rate)[2]
             m0 == [Log(m, Ev("set", "samplerate", rate, TRUE))
                       EXCEPT !.samplerate = rate]
             m1 == update_bits(m0, F, "dac_br_wr", "DACSR_DBR", br)
         IN  IF m1.ret < 0 THEN m1
             ELSE LET m2 == update_bits(m1, F, "dac_bm_wr", "DACSR_DBM", bm) IN
                  IF m2.ret < 0 THEN m2
                  ELSE LET m3 == update_bits(m2, F, "adc_br_wr", "ADCSR_DBR", br) IN
                       IF m3.ret < 0 THEN m3
                       ELSE update_bits(m3, F, "adc_bm_wr", "ADCSR_DBM", bm)

setup_sample_rate(m, F, rate) ==
    IF RateDivider(rate) = <<>> THEN [m EXCEPT !.ret = -EINVAL]
    ELSE LET br == RateDivider(rate)[1]
             bm == RateDivider(rate)[2]
             m1 == update_bits(m, F, "dac_br_wr", "DACSR_DBR", br)
         IN  IF m1.ret < 0 THEN m1
             ELSE LET m2 == update_bits(m1, F, "dac_bm_wr", "DACSR_DBM", bm) IN
                  IF m2.ret < 0 THEN m2
                  ELSE LET m3 == update_bits(m2, F, "adc_br_wr", "ADCSR_DBR", br) IN
                       IF m3.ret < 0 THEN m3
                       ELSE LET m4 == update_bits(m3, F, "adc_bm_wr", "ADCSR_DBM", bm) IN
                            IF m4.ret < 0 THEN m4
                            ELSE [Log(m4, Ev("set", "samplerate", rate, TRUE))
                                     EXCEPT !.samplerate = rate, !.ret = 0]

\* variant of tscs42xx_hw_params that programs the sample format before it
\* takes the lock; C12 tells it from the driver
tscs42xx_hw_params_late_lock(m, F, format, rate) ==
    LET m1 == setup_sample_format(m, F, format) IN
    IF m1.ret < 0 THEN m1
    ELSE LET m2 == setup_sample_rate(mutex_lock(m1), F, rate) IN
         IF m2.ret < 0 THEN mutex_unlock(m2)
         ELSE mutex_unlock([m2 EXCEPT !.ret = 0])

tscs42xx_hw_params(m, F, format, rate) ==
    LET m1 == setup_sample_format(mutex_lock(m), F, format) IN
    IF m1.ret < 0 THEN mutex_unlock(m1)
    ELSE LET m2 == setup_sample_rate(m1, F, rate) IN
         IF m2.ret < 0 THEN mutex_unlock(m2)
         ELSE mutex_unlock([m2 EXCEPT !.ret = 0])

\* tscs42xx_hw_params of the earlier version of the driver: the sample format
\* is programmed before the lock is taken, and every return goes through
\* label exit, which unlocks
part_001_tscs42xx_hw_params(m, F, format, rate) ==
    LET m1 == setup_sample_format(m, F, format) IN
    IF m1.ret < 0 THEN mutex_unlock(m1)
    ELSE LET m2 == setup_sample_rate(mutex_lock(m1), F, rate) IN
         IF m2.ret < 0 THEN mutex_unlock(m2)
         ELSE mutex_unlock([m2 EXCEPT !.ret = 0])

\* tscs42xx_set_bclk_ratio: the ratio is one of 32, 40 and 64 bit clocks per
\* frame; the field value is the ratio itself
tscs42xx_set_bclk_ratio(m, F, ratio) ==
    LET m0 == mutex_lock(m) IN
    IF ratio \notin {32, 40, 64} THEN mutex_unlock([m0 EXCEPT !.ret = -EINVAL])
    ELSE LET m1 == update_bits(m0, F, "dac_bcm_wr", "DACSR_DBCM", ratio) IN
         IF m1.ret < 0 THEN mutex_unlock(m1)
         ELSE LET m2 == update_bits(m1, F, "adc_bcm_wr", "ADCSR_ABCM", ratio) IN
              IF m2.ret < 0 THEN mutex_unlock(m2)
              ELSE mutex_unlock([m2 EXCEPT !.ret = 0])

----------------------------------------------------------------------------
(* Clock configuration and the probes *)

PLL_REG_SETTINGS_COUNT == 13
ENODEV == 19
EPROBE_DEFER == 517

\* the register fields of PLL_CTL in the order of its initialiser: R_PLLCTL1B
\* is written twice, under mask 0x0F and under mask 0xF0
PllCtlFields ==
    <<"TIMEBASE", "PLLCTLD", "PLLCTL1B_0F", "PLLCTL9", "PLLCTLA", "PLLCTLB",
      "PLLCTLC", "PLLCTL12", "PLLCTL1B_F0", "PLLCTLE", "PLLCTLF", "PLLCTL10",
      "PLLCTL11">>

\* the register and the mask of each setting of PLL_CTL
PllCtlRegs ==
    <<"R_TIMEBASE", "R_PLLCTLD", "R_PLLCTL1B", "R_PLLCTL9", "R_PLLCTLA",
      "R_PLLCTLB", "R_PLLCTLC", "R_PLLCTL12", "R_PLLCTL1B", "R_PLLCTLE",
      "R_PLLCTLF", "R_PLLCTL10", "R_PLLCTL11">>

PllCtlMasks == <<255, 255, 15, 255, 255, 255, 255, 255, 240, 255, 255, 255, 255>>

\* a & b on 8-bit values
RECURSIVE BitAnd(_, _)
BitAnd(a, b) ==
    IF a = 0 \/ b = 0 THEN 0
    ELSE (a % 2) * (b % 2) + 2 * BitAnd(a \div 2, b \div 2)

\* variant of regmap_update_bits that writes the value over the whole
\* register; C26 tells it from the driver's
regmap_update_bits_unmasked(old, mask, val) == val

\* the new value of an 8-bit register under regmap_update_bits:
\* (old & ~mask) | (val & mask)
regmap_update_bits(old, mask, val) ==
    BitAnd(old, 255 - mask) + BitAnd(val, mask)

\* the call sites of snd_soc_update_bits in set_pll_ctl_from_input_freq, one
\* per loop iteration
PllCtlSites ==
    <<"pll_ctl_0", "pll_ctl_1", "pll_ctl_2", "pll_ctl_3", "pll_ctl_4",
      "pll_ctl_5", "pll_ctl_6", "pll_ctl_7", "pll_ctl_8", "pll_ctl_9",
      "pll_ctl_10", "pll_ctl_11", "pll_ctl_12">>

\* settings are the values rt, rd, r1b_l, r9, ra, rb, rc, r12, r1b_h, re, rf,
\* r10, r11 of each PLL_CTL row
pll_ctls == <<
    [input_freq |-> 1411200,
     settings |-> <<5, 57, 4, 7, 2, 195, 4, 27, 16, 3, 3, 208, 2>>],
    [input_freq |-> 1536000,
     settings |-> <<5, 26, 4, 2, 3, 224, 1, 26, 16, 2, 3, 185, 1>>],
    [input_freq |-> 2822400,
     settings |-> <<10, 35, 4, 7, 4, 195, 4, 34, 16, 5, 3, 88, 2>>],
    [input_freq |-> 3072000,
     settings |-> <<11, 34, 4, 7, 3, 72, 3, 26, 16, 4, 3, 185, 1>>],
    [input_freq |-> 5644800,
     settings |-> <<21, 35, 4, 14, 4, 195, 4, 26, 16, 8, 3, 224, 1>>],
    [input_freq |-> 6144000,
     settings |-> <<23, 26, 4, 8, 3, 224, 1, 26, 16, 8, 3, 185, 1>>],
    [input_freq |-> 12000000,
     settings |-> <<46, 27, 4, 25, 3, 0, 3, 42, 16, 25, 5, 152, 4>>],
    [input_freq |-> 19200000,
     settings |-> <<74, 19, 4, 20, 3, 128, 1, 26, 16, 25, 3, 185, 1>>],
    [input_freq |-> 22000000,
     settings |-> <<85, 42, 4, 55, 5, 0, 6, 34, 16, 38, 3, 73, 2>>],
    [input_freq |-> 22579200,
     settings |-> <<87, 34, 4, 49, 3, 32, 3, 26, 16, 29, 3, 179, 1>>],
    [input_freq |-> 24000000,
     settings |-> <<93, 19, 4, 25, 3, 128, 1, 27, 16, 25, 5, 76, 2>>],
    [input_freq |-> 24576000,
     settings |-> <<95, 19, 4, 29, 3, 179, 1, 34, 16, 64, 3, 114, 3>>],
    [input_freq |-> 27000000,
     settings |-> <<104, 34, 4, 75, 3, 0, 4, 42, 16, 125, 3, 32, 6>>],
    [input_freq |-> 36000000,
     settings |-> <<140, 27, 4, 75, 3, 0, 3, 42, 16, 125, 3, 152, 4>>],
    [input_freq |-> 25000000,
     settings |-> <<97, 27, 4, 55, 3, 43, 3, 26, 16, 42, 3, 57, 2>>],
    [input_freq |-> 26000000,
     settings |-> <<101, 35, 4, 65, 5, 0, 6, 26, 16, 38, 3, 239, 1>>],
    [input_freq |-> 12288000,
     settings |-> <<47, 26, 4, 18, 3, 28, 2, 34, 16, 32, 3, 114, 3>>],
    [input_freq |-> 40000000,
     settings |-> <<155, 34, 8, 125, 3, 128, 4, 35, 16, 125, 5, 228, 6>>],
    [input_freq |-> 512000,
     settings |-> <<1, 34, 4, 1, 3, 208, 2, 27, 16, 1, 4, 114, 3>>],
    [input_freq |-> 705600,
     settings |-> <<2, 34, 4, 2, 3, 21, 4, 34, 16, 1, 4, 128, 2>>],
    [input_freq |-> 1024000,
     settings |-> <<3, 34, 4, 2, 3, 208, 2, 27, 16, 2, 4, 114, 3>>],
    [input_freq |-> 2048000,
     settings |-> <<7, 34, 4, 4, 3, 208, 2, 27, 16, 4, 4, 114, 3>>],
    [input_freq |-> 2400000,
     settings |-> <<8, 34, 4, 5, 3, 0, 3, 35, 16, 5, 5, 152, 4>>]>>

\* snd_soc_update_bits on setting i of a PLL_CTL row: the field is logged
\* and kept as by update_bits, and the whole register is kept under its
\* register name
update_pll_setting(m, F, ctl, i) ==
    LET m1 == update_bits(m, F, PllCtlSites[i], PllCtlFields[i],
                          pll_ctls[ctl].settings[i])
        reg == PllCtlRegs[i]
    IN  IF m1.ret < 0 \/ reg \notin DOMAIN m.regs THEN m1
        ELSE [m1 EXCEPT !.regs[reg] = regmap_update_bits(m.regs[reg], PllCtlMasks[i],
                                                        pll_ctls[ctl].settings[i])]

\* variant of get_pll_ctl that takes the first entry whose frequency is not
\* below the one asked for; C17 tells it from the driver
RECURSIVE get_pll_ctl_at_least(_, _)
get_pll_ctl_at_least(input_freq, i) ==
    IF i > Len(pll_ctls) THEN 0
    ELSE IF input_freq <= pll_ctls[i].input_freq THEN i
    ELSE get_pll_ctl_at_least(input_freq, i + 1)

\* the loop of get_pll_ctl from index i on: the index of the entry found, 0
\* for NULL
RECURSIVE get_pll_ctl(_, _)
get_pll_ctl(input_freq, i) ==
    IF i > Len(pll_ctls) THEN 0
    ELSE IF input_freq = pll_ctls[i].input_freq THEN i
    ELSE get_pll_ctl(input_freq, i + 1)

\* variant of the settings loop that goes on after a failed update; C18
\* tells it from the driver
RECURSIVE set_pll_ctl_loop_through(_, _, _, _)
set_pll_ctl_loop_through(m, F, ctl, i) ==
    IF i > PLL_REG_SETTINGS_COUNT THEN m
    ELSE LET m1 == update_pll_setting(m, F, ctl, i)
         IN  [set_pll_ctl_loop_through(m1, F, ctl, i + 1)
                 EXCEPT !.ret = IF m1.ret < 0 THEN m1.ret ELSE @]

\* the loop over pll_ctl->settings from setting i on
RECURSIVE set_pll_ctl_loop(_, _, _, _)
set_pll_ctl_loop(m, F, ctl, i) ==
    IF i > PLL_REG_SETTINGS_COUNT THEN [m EXCEPT !.ret = 0]
    ELSE LET m1 == update_pll_setting(m, F, ctl, i)
         IN  IF m1.ret < 0 THEN m1
             ELSE set_pll_ctl_loop(m1, F, ctl, i + 1)

set_pll_ctl_from_input_freq(m, F, input_freq) ==
    LET ctl == get_pll_ctl(input_freq, 1)
        m0 == Log(m, Ev("check", "pll_ctl", ctl, ctl # 0))
    IN  IF ctl = 0 THEN [m0 EXCEPT !.ret = -EINVAL]
        ELSE set_pll_ctl_loop(m0, F, ctl, 1)

\* clk_set_rate and clk_prepare_enable act on the clock framework, not on
\* the codec; they fail when their site is among the failing sites
clk_call(m, F, site, arg) ==
    [Log(m, Ev("call", site, arg, site \notin F)) EXCEPT
         !.ret = IF site \in F THEN -EINVAL ELSE 0]

configure_clocks_refsel_first(m, F) ==
    LET m1 == update_bits(m, F, "refsel_wr", "PLLREFSEL",
                          IF m.pll_src_clk = "xtal" THEN 0 ELSE 1)
    IN  IF m1.ret < 0 THEN m1
        ELSE LET m2 == set_pll_ctl_from_input_freq(m1, F, m1.mclk_src_freq) IN
             IF m2.ret < 0 \/ m2.pll_src_clk = "xtal" THEN m2
             ELSE LET m3 == clk_call(m2, F, "clk_set_rate", m2.mclk_src_freq) IN
                  IF m3.ret < 0 THEN m3 ELSE clk_call(m3, F, "clk_enable", 0)

configure_clocks(m, F) ==
    LET m1 == set_pll_ctl_from_input_freq(m, F, m.mclk_src_freq) IN
    IF m1.ret < 0 THEN m1
    ELSE IF m1.pll_src_clk = "xtal"
    THEN update_bits(m1, F, "refsel_wr", "PLLREFSEL", 0)
    ELSE LET m2 == clk_call(m1, F, "clk_set_rate", m1.mclk_src_freq) IN
         IF m2.ret < 0 THEN m2
         ELSE LET m3 == clk_call(m2, F, "clk_enable", 0) IN
              IF m3.ret < 0 THEN m3
              ELSE update_bits(m3, F, "refsel_wr", "PLLREFSEL", 1)

\* the registers after reset: 24-bit words at 48 kHz x 1, which is the rate
\* tscs42xx_probe records without programming it
ResetValue(f) ==
    CASE f \in {"DACMU", "ADCMU"} -> 1
      [] f = "AIC1_WL" -> 24
      [] f \in {"DACSR_DBR", "ADCSR_DBR"} -> 48
      [] f \in {"DACSR_DBM", "ADCSR_DBM"} -> 4
      [] OTHER -> 0

\* one iteration of the loop of load_dac_coefficient_ram: the status
\* register reads idle at once; a failing site fails at the first word
load_dac_coefficient_word(m, F, addr) ==
    IF "fw_stat_rd" \in F /\ addr = 0
    THEN [Log(m, Ev("r", "DACCRSTAT", -EIO, FALSE)) EXCEPT !.ret = -EIO]
    ELSE LET m1 == Log(m, Ev("r", "DACCRSTAT", 0, TRUE)) IN
         IF "fw_addr_wr" \in F /\ addr = 0
         THEN [Log(m1, Ev("w", "DACCRADDR", addr, FALSE)) EXCEPT !.ret = -EIO]
         ELSE LET m2 == [Log(m1, Ev("w", "DACCRADDR", addr, TRUE))
                            EXCEPT !.craddr = addr]
              IN  IF "fw_data_wr" \in F /\ addr = 0
                  THEN [Log(m2, Ev("w", "DACCRWR", addr, FALSE)) EXCEPT !.ret = -EIO]
                  ELSE [Log(m2, Ev("w", "DACCRWR", addr, TRUE)) EXCEPT
                            !.cram = IF addr \in DOMAIN @
                                     THEN [@ EXCEPT ![addr] = <<1, 2, 3>>] ELSE @,
                            !.ret = 0]

RECURSIVE load_dac_coefficient_loop(_, _, _, _)
load_dac_coefficient_loop(m, F, addr, n) ==
    IF addr >= n THEN [m EXCEPT !.ret = 0]
    ELSE IF n = addr + 1 THEN load_dac_coefficient_word(m, F, addr)
    ELSE LET mid == (addr + n) \div 2
             m1 == load_dac_coefficient_loop(m, F, addr, mid)
         IN  IF m1.ret < 0 THEN m1
             ELSE load_dac_coefficient_loop(m1, F, mid, n)

\* fw: whether tscs42xx_daccram.dfw is found, and its size in bytes
load_dac_coefficient_ram(m, F, fw) ==
    IF ~fw.present THEN [m EXCEPT !.ret = 0]
    ELSE IF fw.size % COEFF_SIZE # 0 THEN [m EXCEPT !.ret = -EINVAL]
    ELSE load_dac_coefficient_loop(m, F, 0, fw.size \div COEFF_SIZE)

\* the three snd_soc_write calls over r_inits
r_inits_loop(m, F) ==
    LET m1 == update_bits(m, F, "init_adcsr", "ADCSR", 64) IN
    IF m1.ret < 0 THEN m1
    ELSE LET m2 == update_bits(m1, F, "init_dacsr", "DACSR", 64) IN
         IF m2.ret < 0 THEN m2
         ELSE update_bits(m2, F, "init_aic2", "AIC2", 1)

\* tscs42xx_probe, the codec probe; the results of the calls after the
\* coefficient load are not looked at
tscs42xx_probe(m, F, polls, fw) ==
    LET m1 == configure_clocks(mutex_lock(m), F) IN
    IF m1.ret < 0 THEN mutex_unlock(m1)
    ELSE LET m2 == r_inits_loop(m1, F) IN
    IF m2.ret < 0 THEN mutex_unlock(m2)
    ELSE LET m3 == update_bits(m2, F, "hpl_on", "PWRM2_HPL", 1) IN
    IF m3.ret < 0 THEN mutex_unlock(m3)
    ELSE LET m4 == power_up_audio_plls(
                       [Log(m3, Ev("set", "samplerate", 48000, TRUE))
                           EXCEPT !.samplerate = 48000], F, polls) IN
    IF m4.ret < 0 THEN mutex_unlock(m4)
    ELSE LET m5 == load_dac_coefficient_ram(m4, F, fw)
             m6 == power_down_audio_plls(m5, F)
             m7 == update_bits(m6, F, "hpl_off", "PWRM2_HPL", 0)
         IN  IF m5.ret < 0 THEN mutex_unlock([m7 EXCEPT !.ret = m5.ret])
             ELSE mutex_unlock([m7 EXCEPT !.ret = 0, !.phase = "ready"])

\* regmap_read of R_DEVIDH and R_DEVIDL; 1 for a valid part, 0 for another
\* part, a negative error when a read fails
part_is_valid(m, F, devid) ==
    IF "devidh_rd" \in F
    THEN [Log(m, Ev("r", "DEVIDH", -EIO, FALSE)) EXCEPT !.ret = -EIO]
    ELSE LET m1 == Log(m, Ev("r", "DEVIDH", devid \div 256, TRUE)) IN
         IF "devidl_rd" \in F
         THEN [Log(m1, Ev("r", "DEVIDL", -EIO, FALSE)) EXCEPT !.ret = -EIO]
         ELSE [Log(m1, Ev("r", "DEVIDL", devid % 256, TRUE)) EXCEPT
                   !.ret = IF ((devid \div 256) * 256 + (devid % 256)) \in {19060, 19059}
                           THEN 1 ELSE 0]

\* dt: the device-tree node: mclk-src ("" when absent), whether the clock of
\* "mclk" can be had, mclk-src-freq (-1 when absent).
\* ret still holds the 0 of the last property read when the frequency has
\* no entry in the PLL table
set_data_from_of(m, dt) ==
    IF dt.src = "" THEN [m EXCEPT !.ret = -EINVAL]
    ELSE IF dt.src = "mclk" /\ ~dt.clk THEN [m EXCEPT !.ret = -EPROBE_DEFER]
    ELSE IF dt.src \notin {"mclk", "xtal"} THEN [m EXCEPT !.ret = -EINVAL]
    ELSE LET m1 == [m EXCEPT !.pll_src_clk = dt.src] IN
         IF dt.freq = -1 THEN [m1 EXCEPT !.ret = -EINVAL]
         ELSE LET m2 == [m1 EXCEPT !.mclk_src_freq = dt.freq, !.ret = 0]
                  ctl == get_pll_ctl(m2.mclk_src_freq, 1)
                  m3 == Log(m2, Ev("check", "pll_ctl", ctl, ctl # 0))
              IN  IF ctl = 0 THEN [m3 EXCEPT !.ret = m2.ret]
                  ELSE [m3 EXCEPT !.ret = 0]

\* tscs42xx_i2c_probe, the bus probe, on a zeroed tscs42xx_priv; the write of
\* R_RESET puts every register back to its reset value
tscs42xx_i2c_probe(m, F, dt, devid) ==
    IF "kzalloc" \in F THEN [m EXCEPT !.ret = -ENOMEM]
    ELSE LET m0 == Log(mutex_lock([m EXCEPT !.samplerate = 0, !.mclk_src_freq = 0,
                                           !.pll_src_clk = "xtal", !.pll_users = 0]),
                       Ev("users", "init", 0, TRUE))
             m1 == set_data_from_of(m0, dt)
         IN  IF m1.ret < 0 THEN mutex_unlock(m1)
             ELSE IF "regmap_init" \in F THEN mutex_unlock([m1 EXCEPT !.ret = -ENOMEM])
             ELSE LET m2 == part_is_valid(m1, F, devid) IN
             IF m2.ret <= 0 THEN mutex_unlock([m2 EXCEPT !.ret = -ENODEV])
             ELSE LET m3 == update_bits(m2, F, "reset_wr", "RESET", 1) IN
             IF m3.ret < 0 THEN mutex_unlock(m3)
             ELSE LET m4 == [m3 EXCEPT !.regs = [f \in DOMAIN @ |-> ResetValue(f)]]
                  IN  IF "register_codec" \in F
                      THEN mutex_unlock([m4 EXCEPT !.ret = -EINVAL])
                      ELSE mutex_unlock([m4 EXCEPT !.ret = 0, !.phase = "bound"])

----------------------------------------------------------------------------
(* State, initial state and the handlers as actions *)

Machine ==
    [pll_users |-> pll_users, samplerate |-> samplerate, regs |-> regs,
     dac_pin |-> dac_pin, cram |-> cram, craddr |-> 0,
     trace |-> <<>>, ret |-> 0, buf |-> <<>>, out |-> <<>>, at |-> "",
     mclk_src_freq |-> mclk_src_freq, pll_src_clk |-> pll_src_clk,
     phase |-> phase]

Snapshot ==
    [pll_users |-> pll_users, samplerate |-> samplerate, regs |-> regs,
     dac_pin |-> dac_pin]

IsEv(e, k, a) == e.k = k /\ e.a = a

Count(tr, k, a) == Cardinality({i \in 1..Len(tr) : IsEv(tr[i], k, a)})

\* successful PowerUp calls and PowerDown calls of a handler
Ups(tr) == Cardinality({i \in 1..Len(tr) : IsEv(tr[i], "ret", "power_up") /\ tr[i].v = 0})
Downs(tr) == Count(tr, "call", "power_down")

Streams == {"playback", "capture"}

MuteField(stream) == IF stream = "playback" THEN "DACMU" ELSE "ADCMU"

PllFields == {"PDB_PLL1", "PDB_PLL2"}

NoPolls == [i \in 1..(MAX_PLL_LOCK_20MS_WAITS + 1) |-> "locked"]

\* arguments of a call and the outcomes its environment was given: the failing
\* call sites and the results of the lock polls
NoArg ==
    [stream |-> "", size |-> 0, addr |-> 0, words |-> <<>>, faults |-> {},
     polls |-> NoPolls]

IdleCall ==
    [op |-> "idle", stream |-> "", size |-> 0, addr |-> 0, words |-> <<>>,
     faults |-> {}, polls |-> NoPolls, ret |-> 0, trace |-> <<>>, out |-> <<>>,
     pre |-> Snapshot]

Idle == call.op = "idle"

\* the threads that invoke handlers concurrently
Threads == {"t1", "t2"}

NoReq == [op |-> "", a |-> 0, b |-> 0]
IdleThread == [req |-> NoReq, todo |-> <<>>, in |-> FALSE]

\* no polling loop in progress
NoXfer == [fn |-> "", pc |-> "", cnt |-> 0, n |-> 0, addr |-> 0, stat |-> 0, ret |-> 0]

\* the handler `op` ran on the current state and ended in machine state m
Commit(op, arg, m) ==
    /\ Idle
    /\ m.pll_users \in (0 - MaxDeficit)..MaxUsers
    /\ pll_users' = m.pll_users
    /\ samplerate' = m.samplerate
    /\ regs' = m.regs
    /\ dac_pin' = m.dac_pin
    /\ cram' = m.cram
    /\ call' = [op |-> op, stream |-> arg.stream, size |-> arg.size,
                addr |-> arg.addr, words |-> arg.words, faults |-> arg.faults,
                polls |-> arg.polls, ret |-> m.ret, trace |-> m.trace,
                out |-> m.out, pre |-> Snapshot]
    /\ held' = held + Ups(m.trace) - Downs(m.trace)
    /\ unmuted' = IF op = "unmute" /\ m.ret = 0 THEN unmuted \cup {arg.stream}
                  ELSE IF op \in {"mute", "unmute"} THEN unmuted \ {arg.stream}
                  ELSE unmuted
    /\ mclk_src_freq' = m.mclk_src_freq
    /\ pll_src_clk' = m.pll_src_clk
    /\ phase' = m.phase
    /\ UNCHANGED <<owner, thr, xfer>>

\* the caller takes the result of the call
TakeResult ==
    /\ ~Idle
    /\ call' = IdleCall
    /\ UNCHANGED <<pll_users, samplerate, regs, dac_pin, cram, held, unmuted,
                   mclk_src_freq, pll_src_clk, phase, owner, thr, xfer>>

AtMostOne(sites) == {{}} \cup {{x} : x \in sites}

\* the lock poll of PowerUp ends with the PLLs locked
Locks(polls) ==
    \E i \in 1..(MAX_PLL_LOCK_20MS_WAITS + 1) :
        polls[i] = "locked" /\ \A j \in 1..(i - 1) : polls[j] = "unlocked"

\* The inputs of one handler run up to its exit: the failing call site of its
\* entry and of its body, and the outcomes of the lock polls.  Each part is
\* left at its first failing call and no site outside the transfer loop is
\* passed twice, so one failing site per part covers every combination of
\* failures.  A failing entry or lock poll ends the handler, so the inputs
\* of the parts that are then never reached are left at their defaults.
Plans(entry, body, pollplans) ==
    {p \in [E : AtMostOne(entry), polls : pollplans, B : AtMostOne(body)] :
        /\ p.E # {} => p.polls = NoPolls
        /\ (p.E # {} \/ ~Locks(p.polls)) => p.B = {}}

\* the lock polls tried with a coefficient request: decided by the first read,
\* or never locked (unmute tries every plan on the same PowerUp)
BracketPolls ==
    {p \in PollPlans : p[1] # "unlocked" \/ \A i \in DOMAIN p : p[i] = "unlocked"}

EntrySites == {"force_enable_pin", "sync_enable", "pll_on"}
ExitSites == {"disable_pin", "sync_disable", "pll1_off", "pll2_off"}
GetSites == {"kzalloc", "copy_user", "addr_wr", "data_rd"}
PutSites == {"kzalloc", "copy_user", "addr_wr", "data_wr", "stat_rd"}
PowerDownSites == {"pll1_off", "pll2_off"}

\* the iteration of the transfer loop at which a failing transfer site fails
GetFaultWords == {1}
PutFaultWords == {0}

\* the words a request may carry
Words == {<<1, 2, 3>>}

\* the register fields kept in regs
SequencerFields == {"PDB_PLL1", "PDB_PLL2", "DACMU", "ADCMU"}

\* after tscs42xx_i2c_probe and a successful tscs42xx_probe: PowerUp and
\* PowerDown have run once each, both streams are muted
Init ==
    /\ pll_users = 0
    /\ samplerate = 48000
    /\ regs = [f \in SequencerFields |-> IF f \in {"DACMU", "ADCMU"} THEN 1 ELSE 0]
    /\ dac_pin = 0
    /\ cram = [a \in 0..COEFF_MAX_ADDR |-> <<0, 0, 0>>]
    /\ call = [IdleCall EXCEPT !.pre =
                  [pll_users |-> 0, samplerate |-> 48000, dac_pin |-> 0,
                   regs |-> [f \in SequencerFields |->
                               IF f \in {"DACMU", "ADCMU"} THEN 1 ELSE 0]]]
    /\ held = 0
    /\ unmuted = {}
    /\ mclk_src_freq = 12288000
    /\ pll_src_clk = "xtal"
    /\ phase = "ready"
    /\ owner = ""
    /\ thr = [t \in Threads |-> IdleThread]
    /\ xfer = NoXfer

Mute ==
    \E stream \in Streams, B \in AtMostOne({"mute_wr"}) :
    \E X \in IF B = {} THEN AtMostOne(PowerDownSites) ELSE {{}} :
        Commit("mute", [NoArg EXCEPT !.stream = stream, !.faults = B \cup X],
               tscs42xx_mute_stream(Machine, TRUE, stream, B \cup X, NoPolls))

\* PowerDown runs in unmute only after the mute write failed
Unmute ==
    \E stream \in Streams, p \in Plans({"pll_on"}, {"mute_wr"}, PollPlans) :
    \E X \in IF p.B # {} THEN AtMostOne(PowerDownSites) ELSE {{}} :
        Commit("unmute",
               [NoArg EXCEPT !.stream = stream, !.faults = p.E \cup p.B \cup X,
                             !.polls = p.polls],
               tscs42xx_mute_stream(Machine, FALSE, stream,
                                    p.E \cup p.B \cup X, p.polls))

CoefficientGet ==
    /\ Idle
    /\ \E size \in {COEFF_RAM_TLV_SIZE, COEFF_RAM_SIZE} :
       \E p \in IF size = COEFF_RAM_TLV_SIZE
                THEN Plans(EntrySites, GetSites, BracketPolls)
                ELSE Plans({}, {}, {NoPolls}),
          fword \in GetFaultWords :
           LET m == coefficient_get_transfer(Machine, size, p.E \cup p.B, p.polls, fword)
           IN  \E X \in IF m.at = "exit" THEN AtMostOne(ExitSites) ELSE {{}} :
                   Commit("coefficient_get",
                          [NoArg EXCEPT !.size = size, !.faults = p.E \cup p.B \cup X,
                                        !.polls = p.polls],
                          coefficient_exit(m, X))

\* reqs: the requests tried, as <<size, start address>>; the status register
\* is read busy only by a request that no call site fails
CoefficientPutOf(reqs, wordset) ==
    /\ Idle
    /\ \E req \in reqs, p \in Plans(EntrySites, PutSites, BracketPolls),
          fword \in PutFaultWords :
       \E busy \in IF p.E = {} /\ p.B = {} /\ Locks(p.polls) THEN 0..MaxBusy ELSE {0},
          words \in [1..(IF c_count_of(req[1]) <= COEFF_COUNT
                         THEN c_count_of(req[1]) ELSE 0) -> wordset] :
           LET m == coefficient_put_transfer(Machine, req[1], req[2], words,
                                             p.E \cup p.B, p.polls, fword, busy)
           IN  \E X \in IF m.at = "exit" THEN AtMostOne(ExitSites) ELSE {{}} :
                   Commit("coefficient_put",
                          [NoArg EXCEPT !.size = req[1], !.addr = req[2],
                                        !.words = words,
                                        !.faults = p.E \cup p.B \cup X,
                                        !.polls = p.polls],
                          coefficient_exit(m, X))

\* one word at the last address and at the one before it, and two words at
\* the last address
CoefficientPut ==
    CoefficientPutOf({<<TL_SIZE + 1 + COEFF_SIZE, COEFF_MAX_ADDR - 1>>,
                      <<TL_SIZE + 1 + COEFF_SIZE, COEFF_MAX_ADDR>>,
                      <<TL_SIZE + 1 + 2 * COEFF_SIZE, COEFF_MAX_ADDR>>},
                     Words)

\* coefficient_put of requests too short to hold a word: the header alone
\* and the header with the address byte and up to two bytes more. The
\* address is byte 8 of the buffer; in a request of 8 bytes that byte lies
\* behind the buffer and has any value
ShortSizes == {TL_SIZE, TL_SIZE + 1, TL_SIZE + 2, TL_SIZE + 3}

ShortAddrs == {0, COEFF_MAX_ADDR, COEFF_MAX_ADDR + 1, 255}

CoefficientPutShort ==
    CoefficientPutOf({<<size, addr>> : size \in ShortSizes, addr \in ShortAddrs}, Words)

NextShort == CoefficientPutShort \/ TakeResult

SpecShort == Init /\ [][NextShort]_vars

\* the rates a stream is set up with: one of each PLL family, one that the
\* rate programmer accepts and PowerUp does not, and one outside the table
RatesTried == {48000, 44100, 24000, 50000}

HwParams ==
    \E format \in {16, 8}, rate \in RatesTried,
       F \in AtMostOne({"wl_wr", "dac_br_wr", "adc_bm_wr"}) :
        Commit("hw_params", [NoArg EXCEPT !.size = rate, !.addr = format, !.faults = F],
               tscs42xx_hw_params(Machine, F, format, rate))

Next == Mute \/ Unmute \/ HwParams \/ CoefficientGet \/ CoefficientPut \/ TakeResult

Spec == Init /\ [][Next]_vars

----------------------------------------------------------------------------
(* The earlier version of the driver *)

Rates == {8000, 16000, 24000, 32000, 48000, 96000, 11025, 22050, 44100, 88200}

RateSites == {"dac_br_wr", "dac_bm_wr", "adc_br_wr", "adc_bm_wr"}

\* tscs42xx_hw_params of the earlier version; 50000 is a rate outside the
\* table, 8 a format outside it
HwParamsOld ==
    \E format \in {16, 24, 8}, rate \in Rates \cup {50000},
       F \in AtMostOne({"wl_wr"} \cup RateSites) :
        Commit("hw_params", [NoArg EXCEPT !.size = rate, !.addr = format, !.faults = F],
               part_001_tscs42xx_hw_params(Machine, F, format, rate))

NextOld == HwParamsOld \/ TakeResult

SpecOld == Init /\ [][NextOld]_vars

----------------------------------------------------------------------------
(* The sample-rate programmer with its registers in the state *)

RateFields == {"AIC1_WL", "DACSR_DBR", "DACSR_DBM", "ADCSR_DBR", "ADCSR_DBM"}

InitRate ==
    /\ pll_users = 0
    /\ samplerate = 48000
    /\ regs = [f \in SequencerFields \cup RateFields |-> ResetValue(f)]
    /\ dac_pin = 0
    /\ cram = [a \in 0..COEFF_MAX_ADDR |-> <<0, 0, 0>>]
    /\ call = [IdleCall EXCEPT !.pre =
                  [pll_users |-> 0, samplerate |-> 48000, dac_pin |-> 0,
                   regs |-> [f \in SequencerFields \cup RateFields |->
                               ResetValue(f)]]]
    /\ held = 0
    /\ unmuted = {}
    /\ mclk_src_freq = 12288000
    /\ pll_src_clk = "xtal"
    /\ phase = "ready"
    /\ owner = ""
    /\ thr = [t \in Threads |-> IdleThread]
    /\ xfer = NoXfer

\* tscs42xx_hw_params over every rate of the table and one outside it; a
\* register write fails only in calls for 44100 Hz
HwParamsAll ==
    \E format \in {16, 8}, rate \in Rates \cup {50000} :
    \E F \in IF rate = 44100 THEN AtMostOne({"wl_wr"} \cup RateSites) ELSE {{}} :
        Commit("hw_params", [NoArg EXCEPT !.size = rate, !.addr = format, !.faults = F],
               tscs42xx_hw_params(Machine, F, format, rate))

\* mute_stream of the playback stream with every register access succeeding
\* and the PLLs locking
MuteStreamClean ==
    \E mute \in BOOLEAN :
        Commit(IF mute THEN "mute" ELSE "unmute", [NoArg EXCEPT !.stream = "playback"],
               tscs42xx_mute_stream(Machine, mute, "playback", {}, NoPolls))

NextRate == HwParamsAll \/ MuteStreamClean \/ TakeResult

SpecRate == InitRate /\ [][NextRate]_vars

----------------------------------------------------------------------------
(* Streams, rate programming and coefficient access together, with the rate
   registers in the state and every register access succeeding *)

\* tscs42xx_hw_params for 16-bit samples at a rate of either family
HwParamsClean ==
    \E rate \in {8000, 44100, 48000} :
        Commit("hw_params", [NoArg EXCEPT !.size = rate, !.addr = 16],
               tscs42xx_hw_params(Machine, {}, 16, rate))

\* mute_stream of either stream
MuteStreamBoth ==
    \E stream \in Streams, mute \in BOOLEAN :
        Commit(IF mute THEN "mute" ELSE "unmute", [NoArg EXCEPT !.stream = stream],
               tscs42xx_mute_stream(Machine, mute, stream, {}, NoPolls))

\* coefficient_get of the whole coefficient RAM
CoefficientGetClean ==
    /\ Idle
    /\ Commit("coefficient_get", [NoArg EXCEPT !.size = COEFF_RAM_TLV_SIZE],
              coefficient_get(Machine, COEFF_RAM_TLV_SIZE, {}, NoPolls, 0))

\* coefficient_put of one word at the last address but one
CoefficientPutClean ==
    /\ Idle
    /\ Commit("coefficient_put",
              [NoArg EXCEPT !.size = TL_SIZE + 1 + COEFF_SIZE,
                            !.addr = COEFF_MAX_ADDR - 1, !.words = <<<<1, 2, 3>>>>],
              coefficient_put(Machine, TL_SIZE + 1 + COEFF_SIZE, COEFF_MAX_ADDR - 1,
                              <<<<1, 2, 3>>>>, {}, NoPolls, 0, 0))

NextBracket ==
    HwParamsClean \/ MuteStreamBoth \/ CoefficientGetClean \/ CoefficientPutClean
    \/ TakeResult

SpecBracket == InitRate /\ [][NextBracket]_vars

----------------------------------------------------------------------------
(* Binding the device: the bus probe and the codec probe *)

Range(f) == {f[i] : i \in DOMAIN f}

\* the frequencies of the PLL table
TableFreqs == {pll_ctls[i].input_freq : i \in 1..Len(pll_ctls)}

\* values of mclk-src-freq tried: the first and the last frequency of the
\* table and three between them, and frequencies that are none of the table
FreqsTried ==
    {1411200, 12000000, 24576000, 12288000, 2400000}
    \cup {0, 11999999, 12288001}

\* device-tree nodes tried: mclk-src is "xtal", "mclk", another string or
\* absent; mclk-src-freq is absent (-1) or one of FreqsTried
NodesTried ==
    {[src |-> "xtal", clk |-> FALSE, freq |-> f] : f \in FreqsTried \cup {-1}}
    \cup {[src |-> "mclk", clk |-> c, freq |-> f] :
              c \in BOOLEAN, f \in {12288000, 12288001}}
    \cup {[src |-> x, clk |-> FALSE, freq |-> 12288000] : x \in {"", "osc"}}

\* part identifiers read from R_DEVIDH:R_DEVIDL: the two valid ones and one
\* other
DevIdsTried == {19060, 19059, 19061}

I2cProbeSites == {"kzalloc", "regmap_init", "devidh_rd", "devidl_rd", "reset_wr",
                  "register_codec"}

ProbeSites ==
    Range(PllCtlSites)
    \cup {"refsel_wr", "clk_set_rate", "clk_enable", "init_adcsr", "init_dacsr",
          "init_aic2", "hpl_on", "pll_on", "fw_stat_rd", "fw_addr_wr", "fw_data_wr",
          "pll1_off", "pll2_off", "hpl_off"}

\* firmware files tried: none, one word, a byte more, two words, and one
\* word more than the coefficient RAM holds
FirmwareTried ==
    {[present |-> FALSE, size |-> 0]}
    \cup {[present |-> TRUE, size |-> n] :
              n \in {COEFF_SIZE, COEFF_SIZE + 1, MaxXferWords * COEFF_SIZE,
                     (COEFF_COUNT + 1) * COEFF_SIZE}}

ProbeFields ==
    SequencerFields \cup Range(PllCtlFields) \cup {"PLLREFSEL", "R_PLLCTL1B"}

\* before the device is bound: the registers at their reset values, no
\* tscs42xx_priv yet
InitProbe ==
    /\ pll_users = 0
    /\ samplerate = 0
    /\ regs = [f \in ProbeFields |-> ResetValue(f)]
    /\ dac_pin = 0
    /\ cram = [a \in 0..COEFF_MAX_ADDR |-> <<0, 0, 0>>]
    /\ call = [IdleCall EXCEPT !.pre =
                  [pll_users |-> 0, samplerate |-> 0, dac_pin |-> 0,
                   regs |-> [f \in ProbeFields |-> ResetValue(f)]]]
    /\ held = 0
    /\ unmuted = {}
    /\ mclk_src_freq = 0
    /\ pll_src_clk = "xtal"
    /\ phase = "unbound"
    /\ owner = ""
    /\ thr = [t \in Threads |-> IdleThread]
    /\ xfer = NoXfer

\* tscs42xx_i2c_probe; another part is found, or a call site fails, only for
\* the nodes with the crystal at or next to 12.288 MHz
I2cProbe ==
    /\ Idle
    /\ phase = "unbound"
    /\ \E dt \in NodesTried :
       \E devid \in IF dt.src = "xtal" /\ dt.freq \in {12288000, 12288001}
                    THEN DevIdsTried ELSE {19060} :
       \E F \in IF dt.src = "xtal" /\ dt.freq = 12288000 /\ devid = 19060
                THEN AtMostOne(I2cProbeSites) ELSE {{}} :
           Commit("i2c_probe",
                  [NoArg EXCEPT !.stream = dt.src, !.size = dt.freq, !.addr = devid,
                                !.faults = F],
                  tscs42xx_i2c_probe(Machine, F, dt, devid))

\* tscs42xx_probe, called when the card is put together; a failed probe may
\* be tried again
CodecProbe ==
    /\ Idle
    /\ phase = "bound"
    /\ \E F \in AtMostOne(ProbeSites) :
       \E polls \in IF F = {} THEN PollPlans ELSE {NoPolls},
          fw \in IF F \subseteq {"fw_stat_rd", "fw_addr_wr", "fw_data_wr"}
                 THEN FirmwareTried ELSE {[present |-> FALSE, size |-> 0]} :
           Commit("probe",
                  [NoArg EXCEPT !.size = fw.size, !.faults = F, !.polls = polls],
                  tscs42xx_probe(Machine, F, polls, fw))

\* tscs42xx_i2c_remove: the codec is unregistered
I2cRemove ==
    /\ Idle
    /\ phase \in {"bound", "ready"}
    /\ phase' = "unbound"
    /\ UNCHANGED <<pll_users, samplerate, regs, dac_pin, cram, call, held, unmuted,
                   mclk_src_freq, pll_src_clk, owner, thr, xfer>>

NextProbe == I2cProbe \/ CodecProbe \/ I2cRemove \/ TakeResult

SpecProbe == InitProbe /\ [][NextProbe]_vars

----------------------------------------------------------------------------
(* The polling loops, one loop step per action *)

\* a handler part ran on the current state and ended in machine state m
Apply(m) ==
    /\ m.pll_users \in (0 - MaxDeficit)..MaxUsers
    /\ pll_users' = m.pll_users
    /\ samplerate' = m.samplerate
    /\ regs' = m.regs
    /\ dac_pin' = m.dac_pin
    /\ cram' = m.cram
    /\ held' = held + Ups(m.trace) - Downs(m.trace)
    /\ mclk_src_freq' = m.mclk_src_freq
    /\ pll_src_clk' = m.pll_src_clk
    /\ phase' = m.phase

Core == <<pll_users, samplerate, regs, dac_pin, cram, held, mclk_src_freq,
          pll_src_clk, phase>>

\* the outcomes of a register read or write in a stepwise run
Outcomes == {"ok", "fail"}

\* plls_locked is entered: count = MAX_PLL_LOCK_20MS_WAITS
PllWaitStart ==
    /\ xfer.fn = ""
    /\ xfer' = [NoXfer EXCEPT !.fn = "plls_locked", !.pc = "read",
                              !.cnt = MAX_PLL_LOCK_20MS_WAITS]
    /\ UNCHANGED <<Core, call, unmuted, owner, thr>>

\* ret = snd_soc_read(codec, R_PLLCTL0) and the tests of ret
PllRead ==
    /\ xfer.fn = "plls_locked" /\ xfer.pc = "read"
    /\ \E r \in {-EIO, 0, 1} :
          xfer' = IF r < 0 THEN [xfer EXCEPT !.pc = "done", !.ret = 0, !.stat = r]
                  ELSE IF r > 0 THEN [xfer EXCEPT !.pc = "done", !.ret = 1, !.stat = r]
                  ELSE [xfer EXCEPT !.pc = "sleep", !.stat = r]
    /\ UNCHANGED <<Core, call, unmuted, owner, thr>>

\* msleep(20); } while (count--);
PllSleep ==
    /\ xfer.fn = "plls_locked" /\ xfer.pc = "sleep"
    /\ xfer' = IF xfer.cnt # 0
               THEN [xfer EXCEPT !.pc = "read", !.cnt = @ - 1]
               ELSE [xfer EXCEPT !.pc = "done", !.cnt = @ - 1, !.ret = 0]
    /\ UNCHANGED <<Core, call, unmuted, owner, thr>>

\* coefficient_put up to its transfer loop, for a request of n words at addr
PutStart ==
    /\ xfer.fn = ""
    /\ \E n \in 0..MaxXferWords, addr \in {0, COEFF_MAX_ADDR - 1},
          E \in AtMostOne(EntrySites) :
          LET m == enable_daccram_access(Machine, E, NoPolls)
              x == [NoXfer EXCEPT !.fn = "coefficient_put", !.n = n, !.addr = addr]
          IN  /\ Apply(m)
              /\ xfer' = IF m.ret < 0 THEN [x EXCEPT !.pc = "done", !.ret = m.ret]
                         ELSE IF addr + n > COEFF_MAX_ADDR
                         THEN [x EXCEPT !.pc = "exit", !.ret = -EINVAL]
                         ELSE IF n = 0 THEN [x EXCEPT !.pc = "exit", !.ret = 0]
                         ELSE [x EXCEPT !.pc = "addr"]
    /\ UNCHANGED <<call, unmuted, owner, thr>>

\* load_dac_coefficient_ram up to its loop, for a firmware file of `size` bytes
LoadStart ==
    /\ xfer.fn = ""
    /\ \E present \in BOOLEAN, size \in 0..(MaxXferWords * COEFF_SIZE) :
          LET x == [NoXfer EXCEPT !.fn = "load_dac_coefficient_ram"] IN
          xfer' = IF ~present THEN [x EXCEPT !.pc = "done", !.ret = 0]
                  ELSE IF size % COEFF_SIZE # 0
                  THEN [x EXCEPT !.pc = "done", !.ret = -EINVAL]
                  ELSE IF size = 0 THEN [x EXCEPT !.pc = "done", !.ret = 0]
                  ELSE [x EXCEPT !.pc = "stat", !.n = size \div COEFF_SIZE]
    /\ UNCHANGED <<Core, call, unmuted, owner, thr>>

\* where a run goes on after a failed register access
Failed(x, ret) ==
    IF x.fn = "coefficient_put" THEN [x EXCEPT !.pc = "exit", !.ret = ret]
    ELSE [x EXCEPT !.pc = "done", !.ret = ret]

\* the write of R_DACCRADDR in either loop
XferAddrWrite ==
    /\ xfer.pc = "addr"
    /\ \E o \in Outcomes :
          xfer' = IF o = "fail" THEN Failed(xfer, -EIO) ELSE [xfer EXCEPT !.pc = "data"]
    /\ UNCHANGED <<Core, call, unmuted, owner, thr>>

\* the end of a loop iteration: cnt++, addr++ and the loop test
NextWord(x, pc) ==
    IF x.cnt + 1 < x.n
    THEN [x EXCEPT !.cnt = @ + 1, !.addr = U8(@ + 1), !.pc = pc]
    ELSE [x EXCEPT !.cnt = @ + 1, !.addr = U8(@ + 1), !.ret = 0,
                   !.pc = IF x.fn = "coefficient_put" THEN "exit" ELSE "done"]

\* the bulk write of R_DACCRWRL in either loop
XferDataWrite ==
    /\ xfer.pc = "data"
    /\ \E o \in Outcomes, w \in Words :
          IF o = "fail"
          THEN xfer' = Failed(xfer, -EIO) /\ UNCHANGED Core
          ELSE /\ Apply([Machine EXCEPT !.cram[xfer.addr] = w])
               /\ xfer' = IF xfer.fn = "coefficient_put"
                          THEN [xfer EXCEPT !.pc = "stat"]
                          ELSE NextWord(xfer, "stat")
    /\ UNCHANGED <<call, unmuted, owner, thr>>

\* the read of R_DACCRSTAT in either loop
XferStatRead ==
    /\ xfer.pc = "stat"
    /\ \E r \in {-EIO, 0, 1} :
          xfer' = IF r < 0 THEN Failed(xfer, r)
                  ELSE [xfer EXCEPT !.pc = "test", !.stat = r]
    /\ UNCHANGED <<Core, call, unmuted, owner, thr>>

\* } while (stat); in coefficient_put, } while (ret); in the loader
XferStatTest ==
    /\ xfer.pc = "test"
    /\ xfer' = IF xfer.stat # 0 THEN [xfer EXCEPT !.pc = "stat"]
               ELSE IF xfer.fn = "coefficient_put" THEN NextWord(xfer, "addr")
               ELSE [xfer EXCEPT !.pc = "addr"]
    /\ UNCHANGED <<Core, call, unmuted, owner, thr>>

\* label exit of coefficient_put
PutExit ==
    /\ xfer.pc = "exit"
    /\ \E X \in AtMostOne(ExitSites) :
          Apply(disable_daccram_access(Machine, X))
    /\ xfer' = [xfer EXCEPT !.pc = "done"]
    /\ UNCHANGED <<call, unmuted, owner, thr>>

\* the function returns xfer.ret
XferReturn ==
    /\ xfer.pc = "done"
    /\ xfer' = NoXfer
    /\ UNCHANGED <<Core, call, unmuted, owner, thr>>

PollStep ==
    \/ PllRead \/ PllSleep \/ XferAddrWrite \/ XferDataWrite \/ XferStatRead
    \/ XferStatTest \/ PutExit \/ XferReturn

NextPoll == PllWaitStart \/ PutStart \/ LoadStart \/ PollStep

\* a thread that is running goes on running
SpecPoll == Init /\ [][NextPoll]_vars /\ WF_vars(PollStep)

----------------------------------------------------------------------------
(* Two callers of the driver and data_lock between them *)

\* the calls the two threads make: operation and its two arguments
Requests ==
    {[op |-> "hw_params", a |-> f, b |-> r] : f \in {16, 8}, r \in {44100}}
    \cup {[op |-> "mute_stream", a |-> mu, b |-> st] : mu \in {0, 1}, st \in {0}}
    \cup {[op |-> "set_bclk_ratio", a |-> r, b |-> 0] : r \in {32, 48}}
    \cup {[op |-> "coefficient_get", a |-> sz, b |-> 0] :
              sz \in {COEFF_RAM_TLV_SIZE, COEFF_RAM_SIZE}}
    \cup {[op |-> "coefficient_put", a |-> 12, b |-> COEFF_MAX_ADDR - 1]}
    \cup {[op |-> "probe", a |-> 0, b |-> 0]}

\* the handler of a request, run on machine state m with no failing access
Run(req, m) ==
    CASE req.op = "hw_params" -> tscs42xx_hw_params(m, {}, req.a, req.b)
      [] req.op = "mute_stream" ->
            tscs42xx_mute_stream(m, req.a = 1,
                                 IF req.b = 0 THEN "playback" ELSE "capture",
                                 {}, NoPolls)
      [] req.op = "set_bclk_ratio" -> tscs42xx_set_bclk_ratio(m, {}, req.a)
      [] req.op = "coefficient_get" -> coefficient_get(m, req.a, {}, NoPolls, 0)
      [] req.op = "coefficient_put" ->
            coefficient_put(m, req.a, req.b, <<<<1, 2, 3>>>>, {}, NoPolls, 0, 0)
      [] req.op = "probe" ->
            tscs42xx_probe(m, {}, NoPolls, [present |-> FALSE, size |-> 0])

\* an event that reads or writes pll_users, samplerate or a register
IsAccess(e) == e.k \in {"w", "r", "users", "dapm", "set"}

\* the positions of the lock and unlock events of a trace, in order
RECURSIVE SortedSeq(_)
SortedSeq(S) ==
    IF S = {} THEN <<>>
    ELSE LET x == CHOOSE y \in S : \A z \in S : y <= z
         IN  <<x>> \o SortedSeq(S \ {x})

\* the steps of a handler as a thread takes them: "lock" and "unlock" for the
\* mutex calls, "begin" and "end" around each run of accesses between them
RECURSIVE StepsFrom(_, _, _)
StepsFrom(tr, from, marks) ==
    LET to == IF marks = <<>> THEN Len(tr) + 1 ELSE Head(marks)
        burst == IF \E i \in from..(to - 1) : IsAccess(tr[i])
                 THEN <<"begin", "end">> ELSE <<>>
    IN  IF marks = <<>> THEN burst
        ELSE burst \o <<tr[to].k>> \o StepsFrom(tr, to + 1, Tail(marks))

Steps(tr) ==
    StepsFrom(tr, 1, SortedSeq({i \in 1..Len(tr) : tr[i].k \in {"lock", "unlock"}}))

\* a thread enters a handler
Invoke(t) ==
    /\ thr[t] = IdleThread
    /\ \E req \in Requests :
          thr' = [thr EXCEPT ![t] = [req |-> req, in |-> FALSE,
                                     todo |-> Steps(Run(req, Machine).trace)]]
    /\ UNCHANGED <<Core, call, unmuted, owner, xfer>>

\* mutex_lock returns once no thread holds the mutex
Acquire(t) ==
    /\ thr[t].todo # <<>> /\ Head(thr[t].todo) = "lock"
    /\ owner = ""
    /\ owner' = t
    /\ thr' = [thr EXCEPT ![t].todo = Tail(@)]
    /\ UNCHANGED <<Core, call, unmuted, xfer>>

\* the first access of a run of accesses
Begin(t) ==
    /\ thr[t].todo # <<>> /\ Head(thr[t].todo) = "begin"
    /\ thr' = [thr EXCEPT ![t].todo = Tail(@), ![t].in = TRUE]
    /\ UNCHANGED <<Core, call, unmuted, owner, xfer>>

\* the last access of a run of accesses; the handler's effect is complete
\* with its last run
End(t) ==
    /\ thr[t].todo # <<>> /\ Head(thr[t].todo) = "end"
    /\ thr' = [thr EXCEPT ![t].todo = Tail(@), ![t].in = FALSE]
    /\ IF \E i \in 2..Len(thr[t].todo) : thr[t].todo[i] = "end"
       THEN UNCHANGED Core
       ELSE Apply(Run(thr[t].req, Machine))
    /\ UNCHANGED <<call, unmuted, owner, xfer>>

\* mutex_unlock; unlocking a mutex the thread does not hold is undefined:
\* the mutex is left as it is or is freed under its holder
Release(t) ==
    /\ thr[t].todo # <<>> /\ Head(thr[t].todo) = "unlock"
    /\ IF owner = t THEN owner' = "" ELSE owner' \in {owner, ""}
    /\ thr' = [thr EXCEPT ![t].todo = Tail(@)]
    /\ UNCHANGED <<Core, call, unmuted, xfer>>

\* the handler returns
Leave(t) ==
    /\ thr[t].req # NoReq /\ thr[t].todo = <<>>
    /\ thr' = [thr EXCEPT ![t] = IdleThread]
    /\ UNCHANGED <<Core, call, unmuted, owner, xfer>>

NextLock ==
    \E t \in Threads :
        Invoke(t) \/ Acquire(t) \/ Begin(t) \/ End(t) \/ Release(t) \/ Leave(t)

SpecLock == Init /\ [][NextLock]_vars

----------------------------------------------------------------------------
(* The per-coefficient sysfs interface: cff_show and cff_store *)

\* In this version of the driver the mutex is tscs42xx->lock; its
\* enable_daccram_access, disable_daccram_access, power_down_audio_plls and
\* tscs42xx_mute_stream have the text of the ones above, and with the lock
\* seen at the first read its power_up_audio_plls takes the same steps.

\* two of the addresses of gen_coefficients: eq1_ch0_prescale, which is
\* read, and eq1_ch1_prescale, which is written
CffShowAddr == 31
CffStoreAddr == 63

\* the value written by cff_store: 0x030201
CffValue == 197121

\* val = (store >> 8 * (k - 1)) & 0xff
CffByte(store, k) ==
    CASE k = 1 -> store % 256
      [] k = 2 -> (store \div 256) % 256
      [] k = 3 -> (store \div 65536) % 256

\* a = the address of the attribute; b = 1 when kstrtoint accepts the text
\* written. For mute_stream a = mute, b = stream
CffRequests ==
    {[op |-> "cff_show", a |-> CffShowAddr, b |-> 0]}
    \cup {[op |-> "cff_store", a |-> CffStoreAddr, b |-> ok] : ok \in {0, 1}}
    \cup {[op |-> "mute_stream", a |-> mute, b |-> 0] : mute \in {0, 1}}

\* the steps of a handler in program order: "lock" is mutex_lock, "enable"
\* and "disable" are the bracket calls with the mutex_unlock after them,
\* the others are one register access each
CffSteps(req) ==
    CASE req.op = "cff_show" ->
            <<"lock", "enable", "addr", "rdl", "rdm", "rdh", "lock", "disable">>
      [] req.op = "cff_store" /\ req.b = 1 ->
            <<"lock", "enable", "addr", "wrl", "wrm", "wrh", "lock", "disable">>
      [] req.op = "cff_store" /\ req.b = 0 ->
            <<"lock", "enable", "lock", "disable">>
      [] req.op = "mute_stream" -> <<"lock", "mute">>

\* val: the bytes cff_show has read
CffIdle == [req |-> NoReq, todo |-> <<>>, in |-> FALSE, val |-> <<>>]

CffFields == SequencerFields \cup {"DACCRADDR"}

InitCff ==
    /\ pll_users = 0
    /\ samplerate = 48000
    /\ regs = [f \in CffFields |-> ResetValue(f)]
    /\ dac_pin = 0
    /\ cram = [a \in 0..COEFF_MAX_ADDR |-> <<0, 0, 0>>]
    /\ call = [IdleCall EXCEPT !.pre =
                  [pll_users |-> 0, samplerate |-> 48000, dac_pin |-> 0,
                   regs |-> [f \in CffFields |-> ResetValue(f)]]]
    /\ held = 0
    /\ unmuted = {}
    /\ mclk_src_freq = 12288000
    /\ pll_src_clk = "xtal"
    /\ phase = "ready"
    /\ owner = ""
    /\ thr = [t \in Threads |-> CffIdle]
    /\ xfer = NoXfer

CffAt(t, steps) == thr[t].todo # <<>> /\ Head(thr[t].todo) \in steps

\* a thread enters cff_show, cff_store or tscs42xx_mute_stream
CffInvoke(t) ==
    /\ thr[t] = CffIdle
    /\ \E req \in CffRequests :
          thr' = [thr EXCEPT ![t] = [CffIdle EXCEPT !.req = req,
                                                   !.todo = CffSteps(req)]]
    /\ UNCHANGED <<Core, call, unmuted, owner, xfer>>

\* mutex_lock(&tscs42xx->lock) returns once no thread holds the mutex
CffLock(t) ==
    /\ CffAt(t, {"lock"})
    /\ owner = ""
    /\ owner' = t
    /\ thr' = [thr EXCEPT ![t].todo = Tail(@)]
    /\ UNCHANGED <<Core, call, unmuted, xfer>>

\* enable_daccram_access(tscs42xx); mutex_unlock(&tscs42xx->lock): the
\* result of the call is not looked at
CffEnable(t) ==
    /\ CffAt(t, {"enable"})
    /\ Apply(enable_daccram_access(Machine, {}, NoPolls))
    /\ owner' = ""
    /\ thr' = [thr EXCEPT ![t].todo = Tail(@), ![t].in = TRUE]
    /\ UNCHANGED <<call, unmuted, xfer>>

\* regmap_write(regmap, R_DACCRADDR, coefficient->addr), made without the
\* mutex
CffAddrWrite(t) ==
    /\ CffAt(t, {"addr"})
    /\ regs' = write_daccraddr(Machine, {}, 0, 0, thr[t].req.a).regs
    /\ thr' = [thr EXCEPT ![t].todo = Tail(@)]
    /\ UNCHANGED <<pll_users, samplerate, dac_pin, cram, held, mclk_src_freq,
                   pll_src_clk, phase, call, unmuted, owner, xfer>>

\* regmap_read of R_DACCRRDL, R_DACCRRDM or R_DACCRRDH: a byte of the word
\* at the address the address register holds
CffRead(t) ==
    /\ CffAt(t, {"rdl", "rdm", "rdh"})
    /\ LET k == Len(thr[t].val) + 1 IN
       thr' = [thr EXCEPT ![t].todo = Tail(@),
                          ![t].val = Append(@, cram[regs["DACCRADDR"]][k])]
    /\ UNCHANGED <<Core, call, unmuted, owner, xfer>>

\* regmap_write of R_DACCRWRL, R_DACCRWRM or R_DACCRWRH: a byte of the word
\* at the address the address register holds
CffWrite(t) ==
    /\ CffAt(t, {"wrl", "wrm", "wrh"})
    /\ LET k == CASE Head(thr[t].todo) = "wrl" -> 1
                  [] Head(thr[t].todo) = "wrm" -> 2
                  [] Head(thr[t].todo) = "wrh" -> 3
       IN  cram' = [cram EXCEPT ![regs["DACCRADDR"]][k] = CffByte(CffValue, k)]
    /\ thr' = [thr EXCEPT ![t].todo = Tail(@)]
    /\ UNCHANGED <<pll_users, samplerate, regs, dac_pin, held, mclk_src_freq,
                   pll_src_clk, phase, call, unmuted, owner, xfer>>

\* label exit, after its mutex_lock: disable_daccram_access(tscs42xx);
\* mutex_unlock(&tscs42xx->lock)
CffDisable(t) ==
    /\ CffAt(t, {"disable"})
    /\ Apply(disable_daccram_access(Machine, {}))
    /\ owner' = ""
    /\ thr' = [thr EXCEPT ![t].todo = Tail(@), ![t].in = FALSE]
    /\ UNCHANGED <<call, unmuted, xfer>>

\* tscs42xx_mute_stream after its mutex_lock, with its mutex_unlock
CffMute(t) ==
    /\ CffAt(t, {"mute"})
    /\ Apply(tscs42xx_mute_stream(Machine, thr[t].req.a = 1, "playback", {}, NoPolls))
    /\ owner' = ""
    /\ thr' = [thr EXCEPT ![t].todo = Tail(@)]
    /\ UNCHANGED <<call, unmuted, xfer>>

\* the handler returns
CffLeave(t) ==
    /\ thr[t].req # NoReq /\ thr[t].todo = <<>>
    /\ thr' = [thr EXCEPT ![t] = CffIdle]
    /\ UNCHANGED <<Core, call, unmuted, owner, xfer>>

NextCff ==
    \E t \in Threads :
        \/ CffInvoke(t) \/ CffLock(t) \/ CffEnable(t) \/ CffAddrWrite(t)
        \/ CffRead(t) \/ CffWrite(t) \/ CffDisable(t) \/ CffMute(t) \/ CffLeave(t)

SpecCff == InitCff /\ [][NextCff]_vars

----------------------------------------------------------------------------
(* Properties of the power/reference-count sequencer *)

Tr == call.trace

\* positions of the accesses of kind k on a in the last call
Pos(k, a) == {i \in 1..Len(Tr) : IsEv(Tr[i], k, a)}

\* no call site failed in the last call and its lock poll ended locked
Clean == call.faults = {} /\ Locks(call.polls)

\* C1: pll_users is never negative, whatever the order of the handlers and
\* the outcomes of the register accesses and lock polls; a mute without a
\* successful unmute before it does not take it below zero.
C1_CounterNeverNegative == pll_users >= 0

\* C2: pll_users equals the number of successful PowerUp calls minus the
\* number of PowerDown calls made so far, so for every sequence in which
\* each PowerDown releases an earlier successful PowerUp it is the number
\* of PowerUp calls not yet released; within a call the counter is
\* incremented once per successful PowerUp and never by a failed one.
C2_CountIsUnreleasedPowerUps ==
    /\ pll_users = held
    /\ Cardinality(Pos("users", "inc")) = Ups(Tr)
    /\ pll_users = call.pre.pll_users + Ups(Tr) - Downs(Tr)
    /\ \A i \in Pos("ret", "power_up") :
          Tr[i].v < 0 => ~IsEv(Tr[i - 1], "users", "inc")

\* a PowerUp failed on a lock timeout while one earlier PowerUp is unreleased
C2_Witness ==
    /\ call.op = "unmute"
    /\ call.ret = -ENOMSG
    /\ held = 1
    /\ unmuted # {}

\* C3: while a stream's last mute_stream call was a successful unmute, a PLL
\* enable bit is set: no mute of the other stream and no exit of a
\* coefficient bracket leaves both PLLs powered down.
C3_PllPoweredWhileClaimed ==
    unmuted # {} => \E f \in PllFields : regs[f] = 1

\* C4: in a mute the mute bit is written (set) before PowerDown is called,
\* so before the counter or a PLL register is touched; in an unmute the mute
\* bit is written (cleared) only after PowerUp has written the PLL enable
\* bit, read the lock status as locked and returned success.
C4_MuteWriteOrder ==
    /\ call.op = "mute" =>
          \A i \in 1..Len(Tr) :
              (\/ Tr[i].k \in {"call", "users"}
               \/ (Tr[i].k = "w" /\ Tr[i].a \in PllFields))
              => \E j \in Pos("w", MuteField(call.stream)) :
                     j < i /\ Tr[j].v = 1 /\ Tr[j].ok
    /\ call.op = "unmute" =>
          \A i \in Pos("w", MuteField(call.stream)) :
              /\ Tr[i].v = 0
              /\ \E e \in 1..(i - 1), l \in 1..(i - 1), r \in 1..(i - 1) :
                    /\ e < l /\ l < r
                    /\ Tr[e].k = "w" /\ Tr[e].a \in PllFields /\ Tr[e].v = 1 /\ Tr[e].ok
                    /\ IsEv(Tr[l], "r", "PLLCTL0") /\ Tr[l].v = 1
                    /\ IsEv(Tr[r], "ret", "power_up") /\ Tr[r].v = 0

\* a capture mute that released the last claim and powered the PLLs down
C4_Witness ==
    /\ call.op = "mute"
    /\ call.stream = "capture"
    /\ call.ret = 0
    /\ call.pre.pll_users = 1
    /\ pll_users = 0
    /\ Pos("w", "ADCMU") # {}
    /\ Pos("w", "PDB_PLL2") # {}

\* C5: when PowerUp fails in an unmute, the unmute returns that failure,
\* writes nothing to the mute register, so the mute bit keeps the value it
\* had, and pll_users is the value it had before the call.
C5_UnmuteAbortsOnPowerUpFailure ==
    call.op = "unmute" =>
        \A i \in Pos("ret", "power_up") :
            Tr[i].v < 0 =>
                /\ call.ret = Tr[i].v
                /\ Pos("w", MuteField(call.stream)) = {}
                /\ regs[MuteField(call.stream)] = call.pre.regs[MuteField(call.stream)]
                /\ pll_users = call.pre.pll_users

\* an unmute of a muted stream at a rate PowerUp does not support
C5_Witness ==
    /\ call.op = "unmute"
    /\ call.ret = -EINVAL
    /\ regs[MuteField(call.stream)] = 1
    /\ pll_users = 1

\* C6: a PowerDown whose decrement leaves the count positive is followed at
\* once by its return of 0, with no register write in between; a mute that
\* ends so leaves the PLL enable fields as they were.
C6_PowerDownKeepsSharedPll ==
    /\ \A i \in Pos("users", "dec") :
          Tr[i].v > 0 =>
              /\ IsEv(Tr[i - 1], "call", "power_down")
              /\ IsEv(Tr[i + 1], "ret", "power_down")
              /\ Tr[i + 1].v = 0
    /\ (call.op = "mute" /\ Pos("users", "dec") # {} /\ pll_users > 0) =>
          /\ call.ret = 0
          /\ \A f \in PllFields : regs[f] = call.pre.regs[f]
          /\ \A i \in 1..Len(Tr) : Tr[i].k = "w" => Tr[i].a = MuteField(call.stream)

\* a mute released one of two claims
C6_Witness ==
    /\ call.op = "mute"
    /\ call.pre.pll_users = 2
    /\ pll_users = 1
    /\ \E f \in PllFields : regs[f] = 1

\* the PowerUp calls of the last call that wrote the enable bit and then read
\* the lock status not-locked MAX_PLL_LOCK_20MS_WAITS + 1 times
TimedOut ==
    {i \in Pos("call", "power_up") :
        /\ i + MAX_PLL_LOCK_20MS_WAITS + 2 <= Len(Tr)
        /\ Tr[i + 1].k = "w" /\ Tr[i + 1].ok
        /\ \A j \in 1..(MAX_PLL_LOCK_20MS_WAITS + 1) :
              IsEv(Tr[i + 1 + j], "r", "PLLCTL0") /\ Tr[i + 1 + j].v = 0}

\* C7: when PowerUp has enabled a PLL and every lock poll up to the bound
\* reads not-locked, PowerUp makes no further poll and returns -ENOMSG,
\* pll_users is not incremented and the enable bit just written stays set.
C7_LockTimeout ==
    \A i \in TimedOut :
        LET r == i + MAX_PLL_LOCK_20MS_WAITS + 3 IN
        /\ r <= Len(Tr)
        /\ IsEv(Tr[r], "ret", "power_up")
        /\ Tr[r].v = -ENOMSG
        /\ Pos("users", "inc") = {}
        /\ pll_users = call.pre.pll_users
        /\ regs[Tr[i + 1].a] = 1

\* the PowerUp of a coefficient read timed out, no other PLL user
C7_Witness ==
    /\ call.op = "coefficient_get"
    /\ TimedOut # {}
    /\ call.ret = -ENOMSG
    /\ pll_users = 0
    /\ regs["PDB_PLL1"] = 1

----------------------------------------------------------------------------
(* Properties of the coefficient RAM access *)

\* C8: with no failing call, a write of one word at any start address in
\* 0 .. COEFF_MAX_ADDR succeeds and stores the word there, and a read
\* succeeds and returns for each address the word stored there.
C8_CoefficientRoundTrip ==
    /\ (/\ call.op = "coefficient_put"
        /\ Clean
        /\ Len(call.words) = 1
        /\ call.addr \in 0..COEFF_MAX_ADDR)
       => (call.ret = 0 /\ cram[call.addr] = call.words[1])
    /\ (call.op = "coefficient_get" /\ Clean /\ call.size = COEFF_RAM_TLV_SIZE)
       => /\ call.ret = 0
          /\ Len(call.out) = COEFF_COUNT
          /\ \A a \in 0..COEFF_MAX_ADDR : call.out[a + 1] = cram[a]

\* C9: a coefficient read or write whose bracket entry succeeded has called
\* PowerDown as often as PowerUp and the DAC pin restore as often as the
\* DAC pin force-enable, whichever call failed after the entry.
C9_BracketBalanced ==
    (/\ call.op \in {"coefficient_get", "coefficient_put"}
     /\ \E i \in Pos("ret", "enable_daccram") : Tr[i].v = 0)
    => /\ Downs(Tr) = Cardinality(Pos("call", "power_up"))
       /\ Cardinality(Pos("dapm", "disable_pin")) =
              Cardinality(Pos("dapm", "force_enable_pin"))

\* C10: a coefficient write whose start address plus word count exceeds
\* COEFF_MAX_ADDR returns -EINVAL when no call fails, and has then made no
\* DAPM call, register read or register write.
C10_RangeCheckedFirst ==
    (call.op = "coefficient_put"
       /\ call.addr + c_count_of(call.size) > COEFF_MAX_ADDR)
    => /\ Clean => call.ret = -EINVAL
       /\ call.ret = -EINVAL =>
              \A i \in 1..Len(Tr) : Tr[i].k \notin {"r", "w", "dapm"}

----------------------------------------------------------------------------
(* Properties of the polling loops *)

\* C11: every polling loop is bounded: once a function with a polling loop
\* (the PLL lock wait, the busy wait of the coefficient write and of the
\* coefficient load) has been entered it returns, whatever the status
\* register reads.
C11_PollingLoopsTerminate == (xfer.fn # "") ~> (xfer.pc = "done")

----------------------------------------------------------------------------
(* Properties of the locking *)

\* C12: a thread that is between the first and the last access of a handler
\* to pll_users, samplerate or a register holds data_lock, so the accesses of
\* two concurrent operations never interleave.
C12_AccessesUnderLock ==
    /\ \A t \in Threads : thr[t].in => owner = t
    /\ \A t, u \in Threads : thr[t].in /\ thr[u].in => t = u

\* one thread is among the accesses of hw_params while the other waits in
\* mutex_lock of mute_stream
C12_Witness ==
    /\ thr["t1"].in /\ thr["t1"].req.op = "hw_params"
    /\ thr["t2"].req.op = "mute_stream"
    /\ thr["t2"].todo # <<>> /\ Head(thr["t2"].todo) = "lock"

\* C13: on every return path a handler releases data_lock exactly as often
\* as it acquired it, at most once, and never releases it before acquiring
\* it; in both versions of hw_params, the unsupported-format path included.
C13_UnlockMatchesLock ==
    LET L == {i \in 1..Len(Tr) : Tr[i].k = "lock"}
        U == {i \in 1..Len(Tr) : Tr[i].k = "unlock"}
    IN  /\ Cardinality(L) = Cardinality(U)
        /\ Cardinality(U) <= 1
        /\ \A u \in U : \E l \in L : l < u

----------------------------------------------------------------------------
(* Properties of the sample-rate programmer *)

\* C14: a successful set_rate leaves the same base rate and multiplier in
\* R_DACSR and R_ADCSR, as the table says: 8000 -> (32k, x0.25),
\* 16000 -> (32k, x0.5), 32000 -> (32k, x1), 24000 -> (48k, x0.5),
\* 48000 -> (48k, x1), 96000 -> (48k, x2), 11025 -> (44.1k, x0.25),
\* 22050 -> (44.1k, x0.5), 44100 -> (44.1k, x1), 88200 -> (44.1k, x2).
\* Base rates are in kHz (44 for 44.1), multipliers in quarters.
C14_RateTable ==
    LET table == {<<8000, 32, 1>>, <<16000, 32, 2>>, <<32000, 32, 4>>,
                  <<24000, 48, 2>>, <<48000, 48, 4>>, <<96000, 48, 8>>,
                  <<11025, 44, 1>>, <<22050, 44, 2>>, <<44100, 44, 4>>,
                  <<88200, 44, 8>>}
    IN  call.op = "hw_params" /\ call.ret = 0 =>
            /\ <<call.size, regs["DACSR_DBR"], regs["DACSR_DBM"]>> \in table
            /\ <<call.size, regs["ADCSR_DBR"], regs["ADCSR_DBM"]>> \in table

\* hw_params has programmed 24000 Hz over 44100 Hz
C14_Witness ==
    /\ call.op = "hw_params" /\ call.ret = 0 /\ call.size = 24000
    /\ call.pre.samplerate = 44100
    /\ regs["ADCSR_DBR"] = 48 /\ regs["ADCSR_DBM"] = 2

\* C15: set_rate stores the rate only when it has succeeded: after an
\* unsupported rate or a failure of any of the four register writes it
\* returns an error and samplerate is what it was; after success samplerate
\* is the rate asked for.
C15_RateStoredOnSuccessOnly ==
    call.op = "hw_params" =>
        /\ call.ret < 0 => samplerate = call.pre.samplerate
        /\ call.ret = 0 => samplerate = call.size
        /\ (call.size \notin Rates \/ call.faults # {}) /\ call.addr = 16
               => call.ret < 0

\* the last of the four writes failed for a rate other than the current one
C15_Witness ==
    /\ call.op = "hw_params" /\ call.faults = {"adc_bm_wr"}
    /\ call.size = 44100 /\ call.pre.samplerate = 48000
    /\ call.ret < 0 /\ regs["ADCSR_DBR"] = 44

\* C16: every rate that set_rate accepts is a rate PowerUp can serve: an
\* unmute at a rate stored by set_rate does not fail for the rate.
C16_AcceptedRatePowersUp ==
    call.op = "unmute" /\ call.pre.samplerate \in Rates => call.ret # -EINVAL

----------------------------------------------------------------------------
(* Properties of the clock configuration and of the probes *)

\* the outcomes of the table lookups of a call
Lookups == {Tr[i].v : i \in {j \in 1..Len(Tr) : IsEv(Tr[j], "check", "pll_ctl")}}

\* C17: get_pll_ctl matches exactly: for a frequency of the table it returns
\* the entry with that input_freq, for any other frequency NULL.
C17_ExactMatchOnly ==
    \A v \in Lookups :
        IF mclk_src_freq \in TableFreqs
        THEN v # 0 /\ pll_ctls[v].input_freq = mclk_src_freq
        ELSE v = 0

\* the bus probe has looked up 12.288 MHz and got the seventeenth entry
C17_Witness ==
    call.op = "i2c_probe" /\ mclk_src_freq = 12288000 /\ Lookups = {17}

\* the updates of PLL settings that a call has issued, in the order issued
PllCtlWrites ==
    SelectSeq(Tr, LAMBDA e : e.k = "w" /\ e.a \in Range(PllCtlFields))

\* C18: set_pll_ctl_from_input_freq issues the 13 masked updates of the
\* entry in the declared order; at the first failure it stops and returns
\* the error: no later update is issued and the earlier ones stay in the
\* registers.
C18_SettingsInOrderUntilFailure ==
    call.op = "probe" /\ Lookups # {0} =>
        LET ctl == CHOOSE v \in Lookups : TRUE
            W == PllCtlWrites
            failed == {j \in 1..PLL_REG_SETTINGS_COUNT : PllCtlSites[j] \in call.faults}
        IN  /\ \A j \in 1..Len(W) :
                   /\ W[j].a = PllCtlFields[j]
                   /\ W[j].v = pll_ctls[ctl].settings[j]
                   /\ W[j].ok = (j \notin failed)
            /\ failed = {} => Len(W) = PLL_REG_SETTINGS_COUNT
            /\ \A k \in failed :
                   /\ Len(W) = k
                   /\ call.ret = -EIO
                   /\ Tr[Len(Tr) - 1] = W[k]
                   /\ \A j \in 1..(k - 1) :
                          regs[PllCtlFields[j]] = pll_ctls[ctl].settings[j]
                   /\ \A j \in k..PLL_REG_SETTINGS_COUNT :
                          regs[PllCtlFields[j]] = call.pre.regs[PllCtlFields[j]]

\* the sixth update failed: five settings are in the registers, the sixth
\* register is as it was
C18_Witness ==
    /\ call.op = "probe" /\ call.faults = {"pll_ctl_5"} /\ call.ret = -EIO
    /\ Len(PllCtlWrites) = 6
    /\ regs["PLLCTLA"] # 0 /\ regs["PLLCTLB"] = 0

\* C19: a reference frequency that the PLL table does not have is refused at
\* set-up time, before the hardware is touched: the bus probe fails and has
\* read or written no register.
C19_UnknownFrequencyRefusedAtSetup ==
    call.op = "i2c_probe" /\ 0 \in Lookups =>
        /\ call.ret < 0
        /\ \A i \in 1..Len(Tr) : Tr[i].k \notin {"r", "w"}

\* C20: hw_params that returns UnsupportedRate or UnsupportedFormat has
\* issued no register write, whatever the other parameter is.
C20_RejectedParamsWriteNothing ==
    call.op = "hw_params" /\ call.ret = -EINVAL =>
        \A i \in 1..Len(Tr) : Tr[i].k # "w"

----------------------------------------------------------------------------
(* Further properties of the sequencer *)

\* C21: a PowerDown that brings the count to zero clears the enable bit of
\* PLL1 and then that of PLL2, whichever was set; it returns the first
\* failure of the two writes, otherwise success, and after success both bits
\* are clear.
C21_PowerDownClearsBothPlls ==
    \A i \in 1..Len(Tr) :
        IsEv(Tr[i], "call", "power_down") /\ Tr[i + 1].v = 0 =>
            /\ IsEv(Tr[i + 2], "w", "PDB_PLL1") /\ Tr[i + 2].v = 0
            /\ IF ~Tr[i + 2].ok
               THEN Tr[i + 3] = Ev("ret", "power_down", -EIO, FALSE)
               ELSE /\ IsEv(Tr[i + 3], "w", "PDB_PLL2") /\ Tr[i + 3].v = 0
                    /\ IF ~Tr[i + 3].ok
                       THEN Tr[i + 4] = Ev("ret", "power_down", -EIO, FALSE)
                       ELSE /\ Tr[i + 4] = Ev("ret", "power_down", 0, TRUE)
                            /\ regs["PDB_PLL1"] = 0 /\ regs["PDB_PLL2"] = 0

\* the last user of the 44.1 kHz family has gone: PLL2 was on and is off
C21_Witness ==
    /\ call.op = "mute" /\ call.ret = 0
    /\ call.pre.pll_users = 1 /\ pll_users = 0
    /\ call.pre.regs["PDB_PLL2"] = 1 /\ call.pre.regs["PDB_PLL1"] = 0
    /\ regs["PDB_PLL2"] = 0

\* C22: PowerUp selects the PLL by the family of the active rate: 8000,
\* 16000, 32000, 48000 and 96000 set the enable bit of PLL1; 11025, 22050,
\* 44100 and 88200 that of PLL2; with any other rate PowerUp fails with
\* UnsupportedRate, writes no register and leaves pll_users as it was.
C22_PllByRateFamily ==
    call.op = "unmute" =>
        \A i \in 1..Len(Tr) :
            IsEv(Tr[i], "call", "power_up") =>
                IF call.pre.samplerate \in {8000, 16000, 32000, 48000, 96000}
                THEN IsEv(Tr[i + 1], "w", "PDB_PLL1") /\ Tr[i + 1].v = 1
                ELSE IF call.pre.samplerate \in {11025, 22050, 44100, 88200}
                THEN IsEv(Tr[i + 1], "w", "PDB_PLL2") /\ Tr[i + 1].v = 1
                ELSE /\ Tr[i + 1] = Ev("ret", "power_up", -EINVAL, FALSE)
                     /\ call.ret = -EINVAL
                     /\ \A j \in 1..Len(Tr) : Tr[j].k # "w"
                     /\ pll_users = call.pre.pll_users
                     /\ regs = call.pre.regs

\* an unmute at 88200 Hz has switched PLL2 on and left PLL1 off
C22_Witness ==
    /\ call.op = "unmute" /\ call.ret = 0 /\ call.pre.samplerate = 88200
    /\ call.pre.regs["PDB_PLL2"] = 0
    /\ regs["PDB_PLL2"] = 1 /\ regs["PDB_PLL1"] = 0

\* the PLL enable bits that the PowerUp calls of the handler have set
PllsEnabled ==
    {Tr[i].a : i \in {j \in 1..Len(Tr) : Tr[j].k = "w" /\ Tr[j].a \in PllFields
                                              /\ Tr[j].v = 1}}

\* the PLL of the family of the base rate in the divider registers
PllOfDividers == IF regs["DACSR_DBR"] = 44 THEN "PDB_PLL2" ELSE "PDB_PLL1"

\* C23: the PLL state stays consistent with the programmed rate: when an
\* unmute returns success the PLL it enabled is that of the family of the
\* rate last programmed into the divider registers by a successful set_rate,
\* whatever coefficient reads and writes ran in between.
C23_PllMatchesProgrammedRate ==
    call.op = "unmute" /\ call.ret = 0 => PllsEnabled = {PllOfDividers}

\* C24: after initialisation samplerate is changed by the rate programmer
\* only: mute, unmute, coefficient reads and coefficient writes leave it equal
\* to the value it had before the operation.
C24_OnlyProgrammerChangesRate ==
    call.op \in {"mute", "unmute", "coefficient_get", "coefficient_put"} =>
        samplerate = call.pre.samplerate

\* the PLL of the family of a rate
PllOfRate(rate) ==
    IF rate \in {11025, 22050, 44100, 88200} THEN "PDB_PLL2" ELSE "PDB_PLL1"

\* the coefficient access has got as far as the PowerUp of its bracket
BracketPowersUp ==
    /\ call.op \in {"coefficient_get", "coefficient_put"}
    /\ \E i \in 1..Len(Tr) : IsEv(Tr[i], "call", "power_up")

\* the PLL enable bit that the PowerUp of the bracket writes
BracketPll == Tr[(CHOOSE i \in Pos("call", "power_up") : TRUE) + 1].a

\* C25: a bracket that begins with pll_users = 0 powers up at the fixed 48 kHz
\* fallback (PLL1); one that begins with pll_users > 0 powers up at the
\* active sample rate, and so enables the PLL family already in use by the
\* live stream.
C25_BracketRateAndLivePll ==
    BracketPowersUp =>
        IF call.pre.pll_users = 0 THEN BracketPll = "PDB_PLL1"
        ELSE call.pre.pll_users > 0 =>
                /\ BracketPll = PllOfRate(call.pre.samplerate)
                /\ call.pre.regs[BracketPll] = 1

----------------------------------------------------------------------------
(* Further properties of the clock configuration *)

\* C26: a PLL setting changes only the bits of its mask: the update of
\* R_PLLCTL1B under mask 0x0F keeps the high nibble the register had, the
\* update under mask 0xF0 keeps the low nibble, so that after a successful
\* apply the register holds the low nibble of the first value and the high
\* nibble of the second.
C26_MaskedUpdates ==
    call.op = "probe" /\ Lookups # {0} =>
        LET ctl == CHOOSE v \in Lookups : TRUE
            n == Cardinality({j \in 1..Len(PllCtlWrites) : PllCtlWrites[j].ok})
            before == call.pre.regs["R_PLLCTL1B"]
            low == pll_ctls[ctl].settings[3] % 16
            high == (pll_ctls[ctl].settings[9] \div 16) * 16
        IN  regs["R_PLLCTL1B"] =
                IF n >= 9 THEN high + low
                ELSE IF n >= 3 THEN (before \div 16) * 16 + low
                ELSE before

\* the settings were applied to the registers at reset: R_PLLCTL1B holds
\* 0x14 or 0x18
C26_Witness ==
    /\ call.op = "probe" /\ call.ret = 0
    /\ call.pre.regs["R_PLLCTL1B"] = 0
    /\ regs["R_PLLCTL1B"] \in {20, 24}

----------------------------------------------------------------------------
(* Properties of the coefficient transfer protocol *)

\* C27: in a coefficient write every write of the address register, that of
\* the first word included, comes after a status read that returned not-busy,
\* with no write of the data register between the two; a status read that
\* fails ends the transfer with its error.
C27_WriteHandshake ==
    call.op \in {"coefficient_put", "probe"} =>
        /\ \A i \in 1..Len(Tr) :
               IsEv(Tr[i], "w", "DACCRADDR") =>
                   \E j \in 1..(i - 1) :
                       /\ Tr[j] = Ev("r", "DACCRSTAT", 0, TRUE)
                       /\ \A k \in (j + 1)..(i - 1) : ~IsEv(Tr[k], "w", "DACCRWR")
        /\ \A i \in 1..Len(Tr) :
               IsEv(Tr[i], "r", "DACCRSTAT") /\ ~Tr[i].ok =>
                   /\ call.ret = Tr[i].v
                   /\ \A k \in (i + 1)..Len(Tr) :
                          Tr[k].a \notin {"DACCRSTAT", "DACCRADDR", "DACCRWR"}

\* the accesses of the coefficient registers in the trace, in order
CoeffAccesses ==
    SelectSeq(Tr, LAMBDA e : e.a \in {"DACCRADDR", "DACCRRD", "DACCRWR", "DACCRSTAT"})

\* C28: a coefficient read whose bracket entry succeeded makes one bracket
\* entry and one bracket exit around its accesses; it writes the addresses
\* 0, 1, 2, ... in order, reads each word right after the successful write of
\* its address and never reads the status register. With no failure it has
\* read COEFF_MAX_ADDR + 1 words; the first failed access is the last one,
\* the bracket exit follows it, its error is returned and the caller's buffer
\* receives nothing.
C28_ReadHandshake ==
    (/\ call.op = "coefficient_get"
     /\ \E i \in Pos("ret", "enable_daccram") : Tr[i].v = 0)
    => LET acc == CoeffAccesses
           n == Len(acc)
           entry == CHOOSE i \in Pos("ret", "enable_daccram") : TRUE
           exit == CHOOSE i \in Pos("call", "disable_daccram") : TRUE
       IN  /\ Cardinality(Pos("call", "enable_daccram")) = 1
           /\ Cardinality(Pos("call", "disable_daccram")) = 1
           /\ \A i \in 1..Len(Tr) :
                  Tr[i].a \in {"DACCRADDR", "DACCRRD", "DACCRWR", "DACCRSTAT"}
                      => entry < i /\ i < exit
           /\ \A j \in 1..n :
                  /\ acc[j].k = (IF j % 2 = 1 THEN "w" ELSE "r")
                  /\ acc[j].a = (IF j % 2 = 1 THEN "DACCRADDR" ELSE "DACCRRD")
                  /\ j % 2 = 1 => acc[j].v = (j - 1) \div 2
                  /\ j < n => acc[j].ok
           /\ IF n > 0 /\ ~acc[n].ok
              THEN call.ret = -EIO /\ call.out = <<>>
              ELSE /\ n = 2 * (COEFF_MAX_ADDR + 1)
                   /\ call.ret = 0 => Len(call.out) = COEFF_MAX_ADDR + 1

\* the read of the second word fails after the first word was read
C28_Witness ==
    /\ call.op = "coefficient_get"
    /\ Len(CoeffAccesses) = 4
    /\ CoeffAccesses[3] = Ev("w", "DACCRADDR", 1, TRUE)
    /\ CoeffAccesses[4] = Ev("r", "DACCRRD", 1, FALSE)
    /\ Pos("call", "disable_daccram") # {}
    /\ call.ret = -EIO

----------------------------------------------------------------------------
(* Properties of the clock configuration *)

\* C29: when tscs42xx_probe writes the PLL reference-select register, the 13
\* PLL settings were all updated successfully before that write, and with the
\* external clock as the source clk_set_rate and clk_prepare_enable were both
\* called successfully before it, in that order; a probe in which a PLL
\* update, clk_set_rate or clk_prepare_enable failed, or whose frequency has
\* no entry, does not write the register.
C29_RefselAfterSettingsAndClock ==
    call.op = "probe" =>
        /\ \A i \in Pos("w", "PLLREFSEL") :
               LET before == SubSeq(Tr, 1, i - 1)
                   ctls == SelectSeq(before,
                               LAMBDA e : e.k = "w" /\ e.a \in Range(PllCtlFields))
               IN  /\ Len(ctls) = PLL_REG_SETTINGS_COUNT
                   /\ \A j \in 1..Len(ctls) : ctls[j].ok /\ ctls[j].a = PllCtlFields[j]
                   /\ pll_src_clk # "xtal" =>
                          \E a \in 1..(i - 1), b \in 1..(i - 1) :
                              /\ a < b
                              /\ Tr[a] = Ev("call", "clk_set_rate", mclk_src_freq, TRUE)
                              /\ Tr[b] = Ev("call", "clk_enable", 0, TRUE)
        /\ Cardinality(Pos("w", "PLLREFSEL")) <= 1
        /\ (\/ Lookups = {0}
            \/ \E j \in 1..Len(PllCtlWrites) : ~PllCtlWrites[j].ok
            \/ \E i \in Pos("call", "clk_set_rate") \cup Pos("call", "clk_enable") :
                   ~Tr[i].ok)
           => Pos("w", "PLLREFSEL") = {}

\* a probe with the external clock as the source wrote the register
C29_Witness ==
    /\ call.op = "probe"
    /\ pll_src_clk # "xtal"
    /\ \E i \in Pos("w", "PLLREFSEL") : Tr[i].ok /\ Tr[i].v = 1
    /\ Len(PllCtlWrites) = PLL_REG_SETTINGS_COUNT
    /\ Pos("call", "clk_enable") # {}

----------------------------------------------------------------------------
(* Properties of the errors of PowerUp *)

\* C30: when a read of the lock status register fails during PowerUp,
\* PowerUp returns the error of that read, which is not the result of a lock
\* timeout, and pll_users is not incremented.
C30_LockReadErrorPropagated ==
    \A i \in Pos("r", "PLLCTL0") :
        ~Tr[i].ok =>
            /\ Tr[i + 1] = Ev("ret", "power_up", Tr[i].v, FALSE)
            /\ Tr[i + 1].v # -ENOMSG
            /\ Pos("users", "inc") = {}
            /\ pll_users = call.pre.pll_users

----------------------------------------------------------------------------
(* Properties of the range validation *)

\* the successful writes of the address register in the trace, in order
AddrWrites ==
    SelectSeq(Tr, LAMBDA e : e.k = "w" /\ e.a = "DACCRADDR" /\ e.ok)

\* C31: a coefficient write of at least one word whose last word lies at an
\* address <= COEFF_MAX_ADDR, with no failing call, passes the range check,
\* returns success and has written one word at each address of its range in
\* ascending order.
C31_InRangeWriteAccepted ==
    (/\ call.op = "coefficient_put"
     /\ Clean
     /\ c_count_of(call.size) >= 1
     /\ call.addr + c_count_of(call.size) - 1 <= COEFF_MAX_ADDR)
    => /\ Pos("check", "range") = {}
       /\ call.ret = 0
       /\ Len(AddrWrites) = c_count_of(call.size)
       /\ \A j \in 1..Len(AddrWrites) : AddrWrites[j].v = call.addr + j - 1
       /\ Cardinality(Pos("w", "DACCRWR")) = c_count_of(call.size)

\* C32: tscs42xx_probe never writes an address above COEFF_MAX_ADDR to the
\* address register, and a coefficient image of more than COEFF_MAX_ADDR + 1
\* words is refused with an error before any access of the coefficient
\* registers.
C32_LoaderRangeChecked ==
    call.op = "probe" =>
        /\ \A i \in Pos("w", "DACCRADDR") : Tr[i].v <= COEFF_MAX_ADDR
        /\ (/\ call.size \div COEFF_SIZE > COEFF_MAX_ADDR + 1
            /\ Pos("ret", "power_up") # {})
           => /\ call.ret < 0
              /\ \A i \in 1..Len(Tr) :
                     Tr[i].a \notin {"DACCRSTAT", "DACCRADDR", "DACCRWR"}

----------------------------------------------------------------------------
(* Properties of the clean-up after a failure *)

\* the failed writes of a mute bit in the trace
MuteWriteFailures ==
    {i \in 1..Len(Tr) : Tr[i].k = "w" /\ Tr[i].a \in {"DACMU", "ADCMU"} /\ ~Tr[i].ok}

\* C33: an unmute whose PowerUp succeeded and whose write of the mute bit
\* failed calls PowerDown after that write and returns the error of the
\* write; pll_users is then at its value from before the call, and when that
\* value is zero and the writes of PowerDown succeed both PLL enable bits are
\* clear.
C33_UnmuteReleasesOnMuteWriteFailure ==
    (/\ call.op = "unmute"
     /\ \E i \in Pos("ret", "power_up") : Tr[i].v = 0
     /\ MuteWriteFailures # {})
    => /\ \A i \in MuteWriteFailures :
              \E j \in Pos("call", "power_down") : j > i
       /\ call.ret = -EIO
       /\ pll_users = call.pre.pll_users
       /\ (/\ call.pre.pll_users = 0
           /\ \A i \in Pos("w", "PDB_PLL1") \cup Pos("w", "PDB_PLL2") : Tr[i].ok)
          => regs["PDB_PLL1"] = 0 /\ regs["PDB_PLL2"] = 0

\* the first unmute enabled a PLL, failed to clear the mute bit and switched
\* the PLLs off again
C33_Witness ==
    /\ call.op = "unmute"
    /\ MuteWriteFailures # {}
    /\ call.pre.pll_users = 0
    /\ \E i \in Pos("users", "inc") : Tr[i].v = 1
    /\ Pos("call", "power_down") # {}
    /\ pll_users = 0
    /\ regs["PDB_PLL1"] = 0 /\ regs["PDB_PLL2"] = 0

\* C34: when coefficient_get or coefficient_put has returned, whichever call
\* failed in the bracket entry, the transfer or the bracket exit, the DAC pin
\* is not force-enabled and pll_users has its value from before the call.
C34_CoefficientOpLeaksNothing ==
    call.op \in {"coefficient_get", "coefficient_put"} =>
        /\ dac_pin = 0
        /\ pll_users = call.pre.pll_users

\* C35: when tscs42xx_probe has returned, with success or with a failure,
\* pll_users is 0 and, when the probe switched the headphone power bit on, it
\* has issued the write that switches the bit off after that.
C35_ProbeCleansUp ==
    call.op = "probe" =>
        /\ pll_users = 0
        /\ \A i \in Pos("w", "PWRM2_HPL") :
               (Tr[i].v = 1 /\ Tr[i].ok) =>
                   \E j \in Pos("w", "PWRM2_HPL") : j > i /\ Tr[j].v = 0

----------------------------------------------------------------------------
(* Properties of the PLL enable bits *)

\* C36: in every state reached by mute, unmute, hw_params and coefficient
\* operations in which no call fails and every lock poll reports locked,
\* pll_users is 0 exactly when both PLL enable bits are clear.
C36_CounterMatchesEnableBits ==
    pll_users = 0 <=> (regs["PDB_PLL1"] = 0 /\ regs["PDB_PLL2"] = 0)

\* C37: in every reachable state at most one of the two PLL enable bits is
\* set, whatever rate hw_params programs between two unmutes or between an
\* unmute and a coefficient access.
C37_OnePllFamilyAtATime ==
    ~(regs["PDB_PLL1"] = 1 /\ regs["PDB_PLL2"] = 1)

----------------------------------------------------------------------------
(* Properties of the per-coefficient sysfs interface *)

\* C38: while a cff_show or cff_store call is between its bracket entry and
\* its bracket exit, no other thread holds the mutex and no other call is
\* between its own bracket entry and exit, so that no access of another
\* operation falls between the accesses of the call; each data-register
\* access of a call finds in the address register the address the call wrote.
C38_CffUnitUnderLock ==
    /\ \A t \in Threads, u \in Threads :
           (t # u /\ thr[t].in) => (~thr[u].in /\ owner # u)
    /\ \A t \in Threads :
           CffAt(t, {"rdl", "rdm", "rdh", "wrl", "wrm", "wrh"})
               => regs["DACCRADDR"] = thr[t].req.a

----------------------------------------------------------------------------
(* Properties of the size arithmetic of coefficient_put *)

\* C39 as stated: with no failing call a request of fewer than 9 bytes is
\* refused with -EINVAL and a request of 9 to 11 bytes returns success; no
\* request of fewer than 12 bytes writes the address or data register.
C39_ShortRequestsAsStated ==
    call.op = "coefficient_put" /\ call.size < TL_SIZE + 1 + COEFF_SIZE =>
        /\ Clean /\ call.size < TL_SIZE + 1 => call.ret = -EINVAL
        /\ Clean /\ call.size >= TL_SIZE + 1 => call.ret = 0
        /\ Pos("w", "DACCRADDR") \cup Pos("w", "DACCRWR") = {}

\* C39: the word count of coefficient_put is (size - 9) / 3 in unsigned
\* 32-bit arithmetic. With no failing call a request of fewer than 9 bytes
\* is refused with -EINVAL; a request of 9 to 11 bytes transfers no word and
\* returns success when its address byte is at most COEFF_MAX_ADDR, and is
\* refused with -EINVAL when it is above. No request of fewer than 12 bytes
\* writes the address or data register.
C39_ShortRequests ==
    call.op = "coefficient_put" /\ call.size < TL_SIZE + 1 + COEFF_SIZE =>
        /\ Clean /\ call.size < TL_SIZE + 1 => call.ret = -EINVAL
        /\ Clean /\ call.size >= TL_SIZE + 1 =>
               call.ret = (IF call.addr <= COEFF_MAX_ADDR THEN 0 ELSE -EINVAL)
        /\ Pos("w", "DACCRADDR") \cup Pos("w", "DACCRWR") = {}

\* a request of 8 bytes, whose word count wraps to (2^32 - 1) / 3, was
\* refused by the range check
C39_Witness ==
    /\ call.op = "coefficient_put"
    /\ Clean
    /\ call.size = TL_SIZE
    /\ c_count_of(call.size) = 1431655765
    /\ call.addr = 0
    /\ Pos("check", "range") # {}
    /\ call.ret = -EINVAL

====
